---- MODULE Spec2Model ----
(***************************************************************************)
(* A model of the content-acquisition and resumable-processing pipeline of *)
(* the systematic-review data-extraction tool: the ProgressTracker         *)
(* (SQLite tables articles / extraction_data / processing_log), the batch  *)
(* drivers main.py and enhanced_main.py, the RateLimiter, the fallback     *)
(* chain of ArticleFetcher, the CloudflareR2Storage object cache and the   *)
(* PDF-first resolver of EnhancedArticleFetcher.                           *)
(*                                                                         *)
(* Each component has its own specification over the shared variables:     *)
(*   SpecDriver  drivers + ProgressTracker, storage reads/writes succeed   *)
(*   SpecResume  the same, with enhanced_main.py as the only driver        *)
(*   SpecStore   ProgressTracker operations called directly, the SQLite    *)
(*               write of an operation may fail                            *)
(*   SpecRate    RateLimiter._wait_for_service, called at arbitrary times  *)
(*   SpecFetch   ArticleFetcher.fetch_article, and the driver's record of  *)
(*               the article fetched                                       *)
(*   SpecChain   ArticleFetcher.fetch_article alone                        *)
(*   SpecKey     CloudflareR2Storage._generate_pdf_key                     *)
(*   SpecCache   CloudflareR2Storage.store_pdf / retrieve_pdf / delete_pdf *)
(*   SpecPdf     EnhancedArticleFetcher._fetch_pdf_based                   *)
(*   SpecUrl     ArticleFetcher._fetch_from_url and _fetch_via_doi         *)
(*   SpecExtract PdfProcessor.extract_text_from_pdf, any argument          *)
(*   SpecCap     PdfProcessor._extract_text_from_pdf_object, any PdfConfig *)
(*   SpecSheet   SheetsClient.get_articles, any sheet                      *)
(*   SpecRunner  restart_extraction.py or scripts/run_extraction.py, run   *)
(*               again and again on one database                           *)
(*   SpecMode    enhanced_main.process_articles with the                   *)
(*               ExtractionModeManager, run again and again on one state   *)
(*               file and one database                                     *)
(***************************************************************************)
EXTENDS Integers, Sequences, FiniteSets, TLC

VARIABLES
  \* ---- ProgressTracker (progress_tracker.py): the three SQLite tables
  articles,         \* id -> row of table articles, or NoRow
  extraction_data,  \* rows of table extraction_data, in insertion order
  processing_log,   \* rows of table processing_log, in insertion order
  \* ---- batch driver (main.py main loop / enhanced_main.process_articles)
  iterations,       \* loop bodies entered so far, over all runs
  driver,           \* which driver the current run executes
  pc,               \* position of the driver inside the loop body
  idx,              \* 1-based position in the work list (enumerate)
  extracted,        \* local extracted_data of the current iteration
  \* ---- observation of the driver (history, not program state)
  statusAtStart,    \* id -> status in table articles when the run began
  attempted,        \* ids started/fetched/extracted/updated in this run
  lastEnd,          \* how the previous run ended
  updFailed,        \* the latest failed backend update: [id, data, at]
  trouble,          \* what went wrong in the latest iteration:
                    \* [id, stage, kind, at], at = rows logged before it
  \* ---- ProgressTracker called directly (SpecStore)
  lastOp,           \* the latest operation: [op, id, data, dbOk, outcome]
  \* ---- RateLimiter (rate_limiter.py)
  now,              \* the wall clock, in seconds
  request_timestamps, \* service -> deque of recorded timestamps
  base_delay,       \* config.base_delay, in seconds
  admissions,       \* history: service -> times at which a wait returned
  waits,            \* history: service -> entry time and window wait per call
  \* ---- ArticleFetcher.fetch_article (article_fetcher.py)
  fArticle,         \* the article's identifiers, as read from the sheet
  fPc,              \* "idle", "loop" (in the for loop) or "done"
  fIdx,             \* position in the list of sources
  fTried,           \* history: the sources called, with what they returned
  fResult,          \* the value fetch_article returned
  fSource,          \* the source whose content was returned
  \* ---- CloudflareR2Storage._generate_pdf_key (cloudflare_r2.py)
  kArticle,         \* the article: doi, pmid, title, id
  kPrev,            \* history: the call before the latest, [present, key]
  kLast,            \* history: the latest call, [present, key]
  \* ---- CloudflareR2Storage (cloudflare_r2.py)
  available,        \* is_available(): boto3 present and the client built
  bucket,           \* the bucket: key -> stored document
  cStore,           \* history: the store_pdf call just made, if any
  cRetr,            \* history: the retrieve_pdf call just made, if any
  \* ---- EnhancedArticleFetcher._fetch_pdf_based
  pArticle,         \* the article being fetched
  pPc,              \* the step of _fetch_pdf_based
  pIdx,             \* position in pdf_sources
  pDoc,             \* pdf_content
  pInvoked,         \* history: the network sources called for the article
  pHit,             \* history: what retrieve_pdf returned for the article
  pHitText,         \* history: the text extracted from the stored document
  pResult,          \* what _fetch_pdf_based returned
  pAnswers,         \* history: what the PDF sources called handed back
  pExtractOk,       \* history: whether the fetched PDF could be opened
  pWeb,             \* history: what the web-based method handed back
  pCacheFailed,     \* history: the storage calls that failed
  pCacheRaised,     \* history: a storage call raised to its caller
  \* ---- ArticleFetcher._fetch_from_url / _fetch_via_doi
  uFunc,            \* the fetch function running
  uPc,              \* "idle", "request" or "done"
  uAttempt,         \* attempt (range(max_retries)) or index in urls_to_try
  uRequests,        \* history: requests sent, [url, response, slept]
  uResult,          \* what the function returned
  \* ---- PdfProcessor.extract_text_from_pdf called directly
  xInput,           \* the argument and what the environment does with it
  xResult,          \* what the call came to
  \* ---- SheetsClient.get_articles
  values,           \* the cells of the articles sheet, header row first
  listed,           \* the articles get_articles returned
  \* ---- runner scripts (restart_extraction.py, scripts/run_extraction.py)
  processed_articles, \* the ids the run skips, computed before the loop
  \* ---- ExtractionModeManager (extraction_mode_manager.py) and the
  \* ---- counters of enhanced_main.process_articles
  state_file,       \* extraction_state.json: NoFile or the ExtractionState
  success_count,    \* local of process_articles
  error_count,      \* local of process_articles
  mPc,              \* "idle", "loop", "finished" or "paused"
  mIdx,             \* 1-based position in the work list (enumerate)
  mRuns,            \* runs of enhanced_main.py begun so far
  mUpdate           \* history: the update_progress call the latest step made

driverVars == <<iterations, driver, pc, idx, extracted, statusAtStart, attempted,
                lastEnd, updFailed, trouble>>
storeVars == <<articles, extraction_data, processing_log>>
rateVars == <<now, request_timestamps, base_delay, admissions, waits>>
fetchVars == <<fArticle, fPc, fIdx, fTried, fResult, fSource>>
keyVars == <<kArticle, kPrev, kLast>>
cacheVars == <<available, bucket, cStore, cRetr>>
pdfVars == <<pArticle, pPc, pIdx, pDoc, pInvoked, pHit, pHitText, pResult,
             pAnswers, pExtractOk, pWeb, pCacheFailed, pCacheRaised>>
urlVars == <<uFunc, uPc, uAttempt, uRequests, uResult>>
extractVars == <<xInput, xResult>>
sheetVars == <<values, listed>>
runnerVars == <<processed_articles>>
modeVars == <<state_file, success_count, error_count, mPc, mIdx, mRuns, mUpdate>>

-----------------------------------------------------------------------------
\* Bounds of the model
MaxItems == 2   \* rows of the work list
MaxIterations == 4   \* loop bodies entered, over all runs of the drivers

\* sheets_client.get_articles: the id of an article is its row number,
\* rows are numbered from 2 (row 1 is the header)
FirstRow == 2
WorkList == [k \in 1..MaxItems |-> FirstRow + k - 1]
ArticleIds == {WorkList[k] : k \in 1..MaxItems}

NoRow == [status |-> "absent"]
Null == "NULL"
NoUpdate == [id |-> 0]
NoTrouble == [id |-> 0]
NoOp == [op |-> "none"]

\* The extraction collaborator's result: a dict category -> dict field ->
\* value, kept as the sequence of its items in iteration order.
EmptyResult == << >>
ResultA == << [category |-> "study_characteristics",
               fields |-> << <<"Author", "A">> >>] >>
ResultB == << [category |-> "study_characteristics",
               fields |-> << <<"Author", "B">>, <<"Setting", "S">> >>] >>
ExtractionResults == {EmptyResult, ResultA, ResultB}

-----------------------------------------------------------------------------
\* ProgressTracker

\* A variant of is_processed that takes any existing row for processed
is_processed_any_row(id) ==
  articles[id] # NoRow

\* A variant of is_processed that also takes a started article for processed
is_processed_or_started(id) ==
  articles[id] # NoRow /\ articles[id].status \in {"completed", "processing"}

\* is_processed: status read back is exactly 'completed'
is_processed(id) ==
  articles[id] # NoRow /\ articles[id].status = "completed"

\* get_processed_articles: SELECT id FROM articles WHERE status = 'completed'
get_processed_articles ==
  {id \in ArticleIds : articles[id] # NoRow /\ articles[id].status = "completed"}

\* get_failed_articles: SELECT ... FROM articles WHERE status = 'failed'
\* (the ids of the rows returned)
get_failed_articles ==
  {id \in ArticleIds : articles[id] # NoRow /\ articles[id].status = "failed"}

\* The rows log_success inserts into extraction_data for one category
RECURSIVE FieldRows(_, _, _)
FieldRows(id, category, fields) ==
  IF fields = << >> THEN << >>
  ELSE << [article_id |-> id, category |-> category,
           field_name |-> Head(fields)[1], field_value |-> Head(fields)[2]] >>
       \o FieldRows(id, category, Tail(fields))

\* ... and for the whole result (the nested for loops of log_success)
RECURSIVE DataRows(_, _)
DataRows(id, data) ==
  IF data = << >> THEN << >>
  ELSE FieldRows(id, Head(data).category, Head(data).fields)
       \o DataRows(id, Tail(data))

\* json.dumps({k: len(v) ...}): category -> number of fields
Summary(data) == [k \in 1..Len(data) |->
                    <<data[k].category, Len(data[k].fields)>>]

\* A start_processing whose 'start' event replaces the events the article
\* already has
start_processing_replace_log(id, dbOk) ==
  IF dbOk
  THEN /\ articles' = [articles EXCEPT ![id] =
                         [status |-> "processing", error_message |-> Null,
                          full_text_source |-> Null, summary |-> Null]]
       /\ processing_log' =
            Append(SelectSeq(processing_log, LAMBDA e : e.article_id # id),
                   [article_id |-> id, event_type |-> "start",
                    message |-> "Started processing article"])
       /\ UNCHANGED extraction_data
  ELSE UNCHANGED storeVars

\* start_processing: INSERT OR REPLACE of a 'processing' row (the columns it
\* does not name become NULL) and a 'start' event, in one transaction.
\* dbOk = FALSE: the write raises inside the try block; the transaction rolls
\* back, the except clause logs the error and the method returns.
start_processing(id, dbOk) ==
  IF dbOk
  THEN /\ articles' = [articles EXCEPT ![id] =
                         [status |-> "processing", error_message |-> Null,
                          full_text_source |-> Null, summary |-> Null]]
       /\ processing_log' = Append(processing_log,
                               [article_id |-> id, event_type |-> "start",
                                message |-> "Started processing article"])
       /\ UNCHANGED extraction_data
  ELSE UNCHANGED storeVars

\* A log_success whose UPDATE leaves a failed row as it is
log_success_sticky(id, data, dbOk) ==
  IF dbOk
  THEN /\ articles' = IF articles[id] = NoRow \/ articles[id].status = "failed"
                      THEN articles
                      ELSE [articles EXCEPT ![id].status = "completed",
                                            ![id].summary = Summary(data)]
       /\ extraction_data' = extraction_data \o DataRows(id, data)
       /\ processing_log' = Append(processing_log,
                               [article_id |-> id, event_type |-> "success",
                                message |-> "Successfully extracted data"])
  ELSE UNCHANGED storeVars

\* log_success: UPDATE ... WHERE id = ? (changes nothing when there is no
\* row), one extraction_data row per field, and a 'success' event.
log_success(id, data, dbOk) ==
  IF dbOk
  THEN /\ articles' = IF articles[id] = NoRow THEN articles
                      ELSE [articles EXCEPT ![id].status = "completed",
                                            ![id].summary = Summary(data)]
       /\ extraction_data' = extraction_data \o DataRows(id, data)
       /\ processing_log' = Append(processing_log,
                               [article_id |-> id, event_type |-> "success",
                                message |-> "Successfully extracted data"])
  ELSE UNCHANGED storeVars

\* A log_failure that only updates: no row is inserted for an unknown id
log_failure_update_only(id, msg, dbOk) ==
  IF dbOk
  THEN /\ articles' = [articles EXCEPT ![id] =
                         IF @ = NoRow THEN @
                         ELSE [@ EXCEPT !.status = "failed",
                                        !.error_message = msg,
                                        !.full_text_source = "unknown"]]
       /\ processing_log' = Append(processing_log,
                               [article_id |-> id, event_type |-> "failure",
                                message |-> msg])
       /\ UNCHANGED extraction_data
  ELSE UNCHANGED storeVars

\* log_failure: UPDATE, then INSERT when rowcount = 0, and a 'failure' event.
log_failure(id, msg, dbOk) ==
  IF dbOk
  THEN /\ articles' = [articles EXCEPT ![id] =
                         IF @ = NoRow
                         THEN [status |-> "failed", error_message |-> msg,
                               full_text_source |-> "unknown",
                               summary |-> Null]
                         ELSE [@ EXCEPT !.status = "failed",
                                        !.error_message = msg,
                                        !.full_text_source = "unknown"]]
       /\ processing_log' = Append(processing_log,
                               [article_id |-> id, event_type |-> "failure",
                                message |-> msg])
       /\ UNCHANGED extraction_data
  ELSE UNCHANGED storeVars

StoreInit ==
  /\ articles = [id \in ArticleIds |-> NoRow]
  /\ extraction_data = << >>
  /\ processing_log = << >>

-----------------------------------------------------------------------------
\* RateLimiter: per-service deques of request timestamps

Services == {"sheets", "api", "azure"}

\* Requests per minute of each service (RateLimitConfig), scaled down
SheetsLimit == 1
ApiLimit == 2
AzureLimit == 2
limits == [sheets |-> SheetsLimit, api |-> ApiLimit, azure |-> AzureLimit]

\* timedelta(minutes=1), in seconds
Window == 60

\* RateLimiter.__init__: empty deques
RateEmpty ==
  /\ now = 0
  /\ request_timestamps = [s \in Services |-> << >>]
  /\ admissions = [s \in Services |-> << >>]
  /\ waits = [s \in Services |-> << >>]

\* The limiter as the other specifications see it: constructed, not used
RateIdle ==
  /\ RateEmpty
  /\ base_delay = 1

-----------------------------------------------------------------------------
\* ArticleFetcher: texts, identifiers and the list of sources

\* A text is a sequence of runs [c, n]: n characters of class c, adjacent
\* runs being of different classes.  The classes are those the regular
\* expressions of _clean_text tell apart:
\*   "p"  printable ASCII other than the space (\x21-\x7E)
\*   "s"  whitespace (\s)
\*   "x"  any other character (control characters, non-ASCII)
RECURSIVE TextLen(_)
TextLen(t) == IF t = << >> THEN 0 ELSE Head(t).n + TextLen(Tail(t))

\* Adjacent runs of one class are one run
RECURSIVE Merge(_)
Merge(t) ==
  IF Len(t) < 2 THEN t
  ELSE IF t[1].c = t[2].c
       THEN Merge(<<[c |-> t[1].c, n |-> t[1].n + t[2].n]>> \o SubSeq(t, 3, Len(t)))
       ELSE <<t[1]>> \o Merge(Tail(t))

\* str.strip(): leading and trailing whitespace removed
StripText(t) ==
  LET l == IF t # << >> /\ Head(t).c = "s" THEN Tail(t) ELSE t
  IN IF l # << >> /\ l[Len(l)].c = "s" THEN SubSeq(l, 1, Len(l) - 1) ELSE l

\* re.sub(r'\s+', ' ', text)
CollapseWhitespace(t) ==
  [k \in 1..Len(t) |-> IF t[k].c = "s" THEN [c |-> "s", n |-> 1] ELSE t[k]]

\* re.sub(r'[^\x20-\x7E\n\r\t]', '', text)
RECURSIVE RemoveNonPrintable(_)
RemoveNonPrintable(t) ==
  IF t = << >> THEN << >>
  ELSE IF Head(t).c = "x" THEN RemoveNonPrintable(Tail(t))
       ELSE <<Head(t)>> \o RemoveNonPrintable(Tail(t))

\* _clean_text.  The third substitution (three or more line breaks become
\* two) finds no line break: the first one has turned each into a space.
clean_text(t) ==
  IF t = << >> THEN << >>
  ELSE StripText(Merge(RemoveNonPrintable(CollapseWhitespace(t))))

\* Minimum content threshold of fetch_article
MinContent == 500

\* What a call hands back: None, an exception, or a string
None == [kind |-> "None"]
Raised == [kind |-> "raise"]
Text(t) == [kind |-> "text", text |-> t]
IsText(c) == c.kind = "text"

\* A threshold test that asks for twice the minimum
Accepts_twice_minimum(c) ==
  IsText(c) /\ c.text # << >> /\ TextLen(StripText(c.text)) > 2 * MinContent

\* if content and len(content.strip()) > 500
Accepts(c) ==
  IsText(c) /\ c.text # << >> /\ TextLen(StripText(c.text)) > MinContent

\* What a fetch function can hand back: nothing, an exception, or a text
Run(c, n) == [c |-> c, n |-> n]
SourceOutcomes ==
  { None, Raised,
    Text(<<Run("p", 50)>>),
    Text(<<Run("p", MinContent)>>),
    Text(<<Run("s", 100), Run("p", 450), Run("s", 100)>>),
    Text(<<Run("p", 1000)>>),
    Text(<<Run("p", 300), Run("s", 3), Run("x", 1), Run("s", 1), Run("p", 300)>>),
    Text(<<Run("p", 100), Run("x", 450)>>),
    Text(<<Run("x", 600)>>),
    Text(<<Run("p", 200), Run("s", 200), Run("p", 200)>>) }

\* '\n\n'.join(metadata_parts) of _fetch_metadata_only
MetadataText == Text(<<Run("p", 40), Run("s", 2), Run("p", 120)>>)

\* Identifiers are strings, here sequences of characters
RECURSIVE StripId(_)
StripId(i) ==
  IF i # << >> /\ Head(i) = " " THEN StripId(Tail(i))
  ELSE IF i # << >> /\ i[Len(i)] = " " THEN StripId(SubSeq(i, 1, Len(i) - 1))
  ELSE i

FetchIdents == {<< >>, <<" ">>, <<"1", "0">>}

\* sources of fetch_article: the name and the identifier each one is given
Sources ==
  << [name |-> "DOI direct", ident |-> "doi"],
     [name |-> "Direct URL", ident |-> "url"],
     [name |-> "Unpaywall", ident |-> "doi"],
     [name |-> "CrossRef", ident |-> "doi"],
     [name |-> "PubMed Central", ident |-> "pmid"],
     [name |-> "Scopus URL", ident |-> "url"],
     [name |-> "arXiv", ident |-> "doi"] >>

FetchIdle ==
  /\ fArticle = [doi |-> << >>, pmid |-> << >>, url |-> << >>]
  /\ fPc = "idle"
  /\ fIdx = 1
  /\ fTried = << >>
  /\ fResult = None
  /\ fSource = "none"

-----------------------------------------------------------------------------
\* CloudflareR2Storage: storage keys.  Strings are sequences of characters.

\* str.replace(old, new) for single characters
RECURSIVE Replace(_, _, _)
Replace(str, old, new) ==
  IF str = << >> THEN << >>
  ELSE <<IF Head(str) = old THEN new ELSE Head(str)>>
         \o Replace(Tail(str), old, new)

\* "_".join(parts)
RECURSIVE Join(_)
Join(parts) ==
  IF parts = << >> THEN << >>
  ELSE IF Len(parts) = 1 THEN parts[1]
  ELSE parts[1] \o <<"_">> \o Join(Tail(parts))

\* hashlib.md5(title.encode()).hexdigest()[:8], for the titles of the model
md5_8(title) ==
  CASE title = <<"A">> -> <<"7", "f", "c", "5", "6", "2", "7", "0">>
    [] title = <<"B">> -> <<"9", "d", "5", "e", "d", "6", "7", "8">>

\* config.pdf_prefix
pdf_prefix == <<"p", "d", "f", "s", "/">>

\* identifier_parts[:2]
MaxKeyParts == 2

NoIdent == << >>

\* The parts in the order the code appends them
IdentifierParts(info) ==
  (IF info.doi # NoIdent
   THEN << <<"d", "o", "i", "_">> \o Replace(Replace(info.doi, "/", "_"), ":", "_") >>
   ELSE << >>)
  \o (IF info.pmid # NoIdent THEN << <<"p", "m", "i", "d", "_">> \o info.pmid >> ELSE << >>)
  \o (IF info.title # NoIdent THEN << <<"t", "i", "t", "l", "e", "_">> \o md5_8(info.title) >> ELSE << >>)
  \o (IF info.id # NoIdent THEN << <<"i", "d", "_">> \o info.id >> ELSE << >>)

\* _generate_pdf_key(article_info); timestamp is the clock reading used when
\* the article has no identifier at all
generate_pdf_key(info, timestamp) ==
  LET identifier_parts ==
        IF IdentifierParts(info) = << >>
        THEN << <<"u", "n", "k", "n", "o", "w", "n", "_">> \o timestamp >>
        ELSE IdentifierParts(info)
      kept == IF Len(identifier_parts) < MaxKeyParts
              THEN Len(identifier_parts) ELSE MaxKeyParts
      base_name == Join(SubSeq(identifier_parts, 1, kept))
  IN pdf_prefix \o base_name \o <<".", "p", "d", "f">>

\* The article restricted to the identifiers present on a run
Identifiers == {"doi", "pmid", "title", "id"}
ArticleInfo(article, present) ==
  [f \in Identifiers |-> IF f \in present THEN article[f] ELSE NoIdent]

Dois == {<<"1", "/", "a">>, <<"1", "_", "a">>, <<"1", ":", "a">>}
Pmids == {<<"7">>, <<"8">>}
Titles == {<<"A">>, <<"B">>}
Timestamps == {<<"t", "1">>, <<"t", "2">>}

NoCall == [present |-> {"none"}]

KeyIdle ==
  /\ kArticle = [doi |-> NoIdent, pmid |-> NoIdent, title |-> NoIdent,
                 id |-> NoIdent]
  /\ kPrev = NoCall
  /\ kLast = NoCall

-----------------------------------------------------------------------------
\* Documents and PdfProcessor

\* A document: its first four bytes and, for each page, the length of the
\* text of the page after _clean_page_text
Doc(magic, pages) == [kind |-> "pdf", magic |-> magic, pages |-> pages]
DocText == Doc("%PDF", <<400, 30>>)
DocOther == Doc("%PDF", <<60, 70>>)
DocScan == Doc("%PDF", <<0, 20>>)
NotPdf == Doc("<htm", << >>)
Docs == {DocText, DocOther, DocScan, NotPdf}

\* pdf_content.startswith(b'%PDF')
validate_pdf(doc) == doc.magic = "%PDF"

\* PdfConfig
min_page_text_length == 50
max_text_length == 50000

\* len("[Text truncated due to length limit]") and the line break before it
TruncationMarker == 37

RECURSIVE Sum(_)
Sum(ns) == IF ns = << >> THEN 0 ELSE Head(ns) + Sum(Tail(ns))

\* The loop over the pages: a page is kept if its text is longer than
\* min_page_text_length; the loop stops once the kept text exceeds
\* max_text_length
RECURSIVE PagesText(_, _)
PagesText(pages, kept) ==
  IF pages = << >> \/ Sum(kept) > max_text_length THEN kept
  ELSE PagesText(Tail(pages),
                 IF Head(pages) > min_page_text_length
                 THEN Append(kept, Head(pages)) ELSE kept)

Extracted(n, truncated) == [kind |-> "text", len |-> n, truncated |-> truncated]

\* extract_text_from_pdf of bytes: None if pdfplumber cannot open the
\* document (ok is false) or no page is kept; else the pages, one line
\* each, cut at max_text_length with the marker appended.  The method does
\* not look at the signature.
extract_text_from_pdf(doc, ok) ==
  LET pages_text == PagesText(doc.pages, << >>)
      final == Sum(pages_text) + (Len(pages_text) - 1)
  IN IF ~ok \/ pages_text = << >> THEN None
     ELSE IF final > max_text_length
          THEN Extracted(max_text_length + TruncationMarker, TRUE)
          ELSE Extracted(final, FALSE)

\* A PDF with a line break in front of its "%PDF-" header
DocPrefixed == Doc("\n%PD", <<400, 30>>)

\* Arguments of extract_text_from_pdf: bytes, the path of a file that does
\* or does not exist, or a value of another type
ExtractArguments ==
  [type : {"bytes"}, doc : Docs \cup {DocPrefixed}]
  \cup [type : {"path"}, exists : BOOLEAN, doc : Docs \cup {DocPrefixed}]
  \cup {[type |-> "other"]}

\* The try blocks of PdfProcessor: each except clause logs and returns None
\* (that of the page loop goes on to the next page)
PdfTryBlocks ==
  {"extract_text_from_pdf", "_extract_from_file", "_extract_from_bytes",
   "_extract_text_from_pdf_object", "page"}

pdf_except(block) == CASE block \in PdfTryBlocks -> "caught"

\* The pages of a document without those whose extract_text raises
WithoutPages(doc, page_errors) ==
  Doc(doc.magic,
      [k \in DOMAIN doc.pages |->
         IF k \in page_errors /\ pdf_except("page") = "caught"
         THEN 0 ELSE doc.pages[k]])

\* A call extract_text_from_pdf(pdf_content, source_info): without
\* pdfplumber None; by type of pdf_content the file, the bytes through a
\* temporary file, or None; pdfplumber.open raises or opens the file
pdf_extract(arg, has_pdfplumber, opens, page_errors) ==
  IF ~has_pdfplumber \/ arg.type = "other" THEN None
  ELSE IF arg.type = "path" /\ ~arg.exists THEN None
  ELSE IF ~opens
       THEN (IF pdf_except("_extract_from_file") = "caught" THEN None
             ELSE Raised)
  ELSE IF page_errors # {} /\ pdf_except("page") # "caught" THEN Raised
  ELSE extract_text_from_pdf(WithoutPages(arg.doc, page_errors), TRUE)

NotCalled == [kind |-> "not called"]

ExtractIdle ==
  /\ xInput = NotCalled
  /\ xResult = NotCalled

-----------------------------------------------------------------------------
\* SheetsClient.get_articles.  Cells and headers are strings, here sequences
\* of characters.

\* str.lower(), for the letters of the headers
LowerCase ==
  [c \in {"D", "O", "I", "P", "M", "U", "R", "L", "T"} |->
     CASE c = "D" -> "d" [] c = "O" -> "o" [] c = "I" -> "i" [] c = "P" -> "p"
       [] c = "M" -> "m" [] c = "U" -> "u" [] c = "R" -> "r" [] c = "L" -> "l"
       [] c = "T" -> "t"]

\* header.lower().replace(' ', '_')
header_key(header) ==
  Replace([k \in DOMAIN header |->
             IF header[k] \in DOMAIN LowerCase THEN LowerCase[header[k]]
             ELSE header[k]],
          " ", "_")

\* An identifier test without strip()
has_identifier_unstripped(cell) == cell # << >>

\* bool(article.get(key, '').strip()), given the value of the key
has_identifier(cell) == StripId(cell) # << >>

\* article.get(key, ''): the dict holds the cell of the last column whose
\* header has this key; a row shorter than the headers is padded with ''
article_get(headers, row, key) ==
  LET cols == {j \in DOMAIN headers : header_key(headers[j]) = key}
  IN IF cols = {} THEN << >>
     ELSE LET j == CHOOSE c \in cols : \A d \in cols : d <= c
          IN IF j <= Len(row) THEN row[j] ELSE << >>

\* get_articles: no values, no articles; else one article per data row, its
\* id the number of the row, kept if doi, pmid or url is not blank
get_articles(vals) ==
  IF vals = << >> THEN << >>
  ELSE LET headers == vals[1]
           article(i) ==
             [id |-> i,
              doi |-> article_get(headers, vals[i], <<"d", "o", "i">>),
              pmid |-> article_get(headers, vals[i], <<"p", "m", "i", "d">>),
              url |-> article_get(headers, vals[i], <<"u", "r", "l">>)]
           RECURSIVE from(_)
           from(i) ==
             IF i > Len(vals) THEN << >>
             ELSE (IF \/ has_identifier(article(i).doi)
                      \/ has_identifier(article(i).pmid)
                      \/ has_identifier(article(i).url)
                   THEN <<article(i)>> ELSE << >>)
                  \o from(i + 1)
       IN from(FirstRow)

SheetIdle ==
  /\ values = << >>
  /\ listed = << >>

\* The runner scripts before their first run
RunnerIdle ==
  processed_articles = {}

\* ExtractionState as saved in extraction_state.json (last_used, a time
\* stamp, pdf_storage_enabled and notes are left out); no file; and the
\* value None of resume_from_article_id, article ids being positive
NoFile == [kind |-> "no file"]
NoMarker == 0
NoProgress == [kind |-> "no update"]

\* enhanced_main.py before its first run: no state file
ModeIdle ==
  /\ state_file = NoFile
  /\ success_count = 0
  /\ error_count = 0
  /\ mPc = "idle"
  /\ mIdx = 1
  /\ mRuns = 0
  /\ mUpdate = NoProgress

-----------------------------------------------------------------------------
\* CloudflareR2Storage: store, retrieve, delete

Key(k) == [kind |-> "key", key |-> k]

\* A call of the S3 client succeeds or raises
Backend == {"ok", "error"}

\* The existence test with the answer always no
key_exists_never(b, key) == FALSE

\* _key_exists, when head_object answers
key_exists(b, key) == key \in DOMAIN b

\* What a call of store_pdf comes to: the value returned, the bucket
\* afterwards, and whether put_object was called
StoreResult(ret, b, uploaded) ==
  [ret |-> ret, bucket |-> b, uploaded |-> uploaded]

\* store_pdf without the existence test: every call uploads
store_pdf_always(b, avail, key, doc, overwrite, head, put) ==
  IF ~avail THEN StoreResult(None, b, FALSE)
  ELSE IF put = "error" THEN StoreResult(None, b, TRUE)
  ELSE StoreResult(Key(key), (key :> doc) @@ b, TRUE)

\* store_pdf(pdf_content, article_info, overwrite): the value returned and
\* the bucket afterwards.  head and put are the outcomes of head_object and
\* put_object.
store_pdf(b, avail, key, doc, overwrite, head, put) ==
  IF ~avail THEN StoreResult(None, b, FALSE)
  ELSE IF ~overwrite /\ head = "error" THEN StoreResult(None, b, FALSE)
  ELSE IF ~overwrite /\ key_exists(b, key) THEN StoreResult(Key(key), b, FALSE)
  ELSE IF put = "error" THEN StoreResult(None, b, TRUE)
  ELSE StoreResult(Key(key), (key :> doc) @@ b, TRUE)

\* retrieve_pdf(key); get is the outcome of get_object
retrieve_pdf(b, avail, key, get) ==
  IF ~avail \/ get = "error" \/ key \notin DOMAIN b THEN None ELSE b[key]

\* delete_pdf(key): the bucket afterwards
delete_pdf(b, avail, key, del) ==
  IF ~avail \/ del = "error" THEN b
  ELSE [k \in DOMAIN b \ {key} |-> b[k]]

NoStore == [kind |-> "no store"]
NoRetr == [kind |-> "no retrieve"]
Absent == [kind |-> "absent"]

CacheEmpty ==
  /\ bucket = << >>
  /\ cStore = NoStore
  /\ cRetr = NoRetr

CacheIdle ==
  /\ CacheEmpty
  /\ available = TRUE

-----------------------------------------------------------------------------
\* EnhancedArticleFetcher, PDF_BASED: articles and PDF sources

PdfArticles ==
  { [doi |-> <<"1", "/", "a">>, pmid |-> <<"7">>, url |-> NoIdent,
     title |-> <<"A">>, id |-> <<"2">>],
    [doi |-> NoIdent, pmid |-> NoIdent, url |-> <<"u">>,
     title |-> <<"B">>, id |-> <<"3">>],
    [doi |-> <<"1", "/", "b">>, pmid |-> NoIdent, url |-> <<"v">>,
     title |-> <<"A">>, id |-> <<"4">>] }

\* pdf_sources of _fetch_pdf_content, built from the stripped identifiers
PdfSourceList(article) ==
  (IF StripId(article.doi) # << >>
   THEN <<"DOI PDF direct", "Unpaywall PDF">> ELSE << >>)
  \o (IF StripId(article.url) # << >> THEN <<"Direct URL PDF">> ELSE << >>)
  \o (IF StripId(article.pmid) # << >> THEN <<"PMC PDF">> ELSE << >>)
  \o (IF StripId(article.doi) # << >> THEN <<"arXiv PDF">> ELSE << >>)

NotAsked == [kind |-> "not asked"]

\* The storage methods the fetcher calls
R2Methods == {"test_connection", "retrieve_pdf", "store_pdf", "get_pdf_metadata"}

\* An except clause that lets the error through
r2_except_propagates(method) == "raised"

\* What the except clause of a storage method does with an error of the
\* backend: each logs it and returns None, False or {}
r2_except(method) == CASE method \in R2Methods -> "caught"

\* Going on to the PDF sources whatever the bucket gave
AlwaysFetch(stored) == "pdfsrc"

\* if stored_pdf: return text, metadata -- else go on to the PDF sources
AfterCache(stored) == IF stored # None THEN "done" ELSE "pdfsrc"

PdfIdle ==
  /\ pArticle = [doi |-> NoIdent, pmid |-> NoIdent, url |-> NoIdent,
                 title |-> NoIdent, id |-> NoIdent]
  /\ pPc = "idle"
  /\ pIdx = 1
  /\ pDoc = None
  /\ pInvoked = {}
  /\ pHit = None
  /\ pHitText = None
  /\ pResult = None
  /\ pAnswers = << >>
  /\ pExtractOk = "none"
  /\ pWeb = NotAsked
  /\ pCacheFailed = {}
  /\ pCacheRaised = FALSE

-----------------------------------------------------------------------------
\* ArticleFetcher: requests to one URL

\* FetcherConfig.max_retries
max_retries == 3

\* 2 ** attempt
RECURSIVE Pow2(_)
Pow2(n) == IF n = 0 THEN 1 ELSE 2 * Pow2(n - 1)

\* What session.get gives: a response with a status (and, for 200, a kind
\* of content), or an exception (timeout, connection error)
Response(status, content) == [status |-> status, content |-> content]
Timeout == [status |-> 0, content |-> "exception"]
Responses ==
  { Response(200, "html"), Response(200, "pdf"), Response(404, "none"),
    Response(500, "none"), Timeout }

\* urls_to_try of _fetch_via_doi
urls_to_try == <<"https://doi.org/", "http://dx.doi.org/", "https://www.doi.org/">>

UrlIdle ==
  /\ uFunc = "none"
  /\ uPc = "idle"
  /\ uAttempt = 0
  /\ uRequests = << >>
  /\ uResult = None

-----------------------------------------------------------------------------
\* Batch drivers: main.py (main loop) and enhanced_main.py (process_articles).
\* One action per call of the loop body; between two calls the operator may
\* interrupt the run (KeyboardInterrupt).  Storage reads and writes succeed
\* in these specifications (SpecStore covers failing writes).

Drivers == {"main", "enhanced"}
CurrentId == WorkList[idx]

\* What the driver specifications leave alone
driverFrame == <<lastOp, rateVars, fetchVars, keyVars, cacheVars, pdfVars,
    urlVars, extractVars, sheetVars, runnerVars, modeVars>>

\* A step of the iteration on the current article raised or yielded nothing
Trouble(stage, kind) ==
  [id |-> CurrentId, stage |-> stage, kind |-> kind,
   at |-> Len(processing_log)]

\* "continue" / end of the loop body: on to the next article
NextArticle ==
  /\ idx' = idx + 1
  /\ pc' = "check"
  /\ extracted' = EmptyResult

\* A run of a driver begins: the work list is read, the loop starts.  A run
\* may follow a finished or an interrupted one, any number of times.
StartRun(D) ==
  /\ pc \in {"idle", "done"}
  /\ \E d \in D : driver' = d
  /\ idx' = 1
  /\ pc' = "check"
  /\ extracted' = EmptyResult
  /\ statusAtStart' = [id \in ArticleIds |-> articles[id].status]
  /\ attempted' = {}
  /\ lastEnd' = IF pc = "done" THEN "finished" ELSE lastEnd
  /\ trouble' = NoTrouble
  /\ UNCHANGED <<iterations, updFailed, storeVars, driverFrame>>

\* if progress_tracker.is_processed(article_id): continue
CheckProcessed ==
  /\ pc = "check"
  /\ idx <= MaxItems
  /\ IF is_processed(CurrentId)
     THEN NextArticle /\ UNCHANGED <<iterations, trouble>>
     ELSE /\ iterations < MaxIterations
          /\ iterations' = iterations + 1
          /\ pc' = "wait"
          /\ trouble' = NoTrouble
          /\ UNCHANGED <<idx, extracted>>
  /\ UNCHANGED <<driver, statusAtStart, attempted, lastEnd, updFailed,
                 storeVars, driverFrame>>

\* await rate_limiter.wait(): suspends, touches no progress state (the
\* limiter itself is the subject of SpecRate)
RateWait ==
  /\ pc = "wait"
  /\ pc' = IF driver = "enhanced" THEN "start" ELSE "fetch"
  /\ UNCHANGED <<trouble, iterations, driver, idx, extracted, statusAtStart, attempted,
                 lastEnd, updFailed, storeVars, driverFrame>>

\* enhanced_main only: progress_tracker.start_processing(article_id, article)
DriverStart ==
  /\ pc = "start"
  /\ start_processing(CurrentId, TRUE)
  /\ attempted' = attempted \cup {CurrentId}
  /\ pc' = "fetch"
  /\ UNCHANGED <<trouble, iterations, driver, idx, extracted, statusAtStart, lastEnd,
                 updFailed, driverFrame>>

\* str(e) in "except Exception as e: log_failure(article_id, str(e))": the
\* text of the exception, whatever the call that raised it
ExceptionText == "str(e)"

\* What article_fetcher.fetch_article hands back: nothing, a text of fewer
\* than 100 characters, a longer text, or an exception
FetchResults == {"none", "short", "text", "raise"}

\* The message the driver logs for a fetch result, or Null to go on.
\* main.py only tests "not full_text"; enhanced_main also rejects a text
\* shorter than 100 characters.
FetchFailure(d, r) ==
  CASE r = "raise" -> ExceptionText
    [] r = "none" -> IF d = "main" THEN "Failed to fetch full text"
                     ELSE "No content found"
    [] r = "short" -> IF d = "main" THEN Null ELSE "Insufficient content"
    [] OTHER -> Null

DriverFetch ==
  /\ pc = "fetch"
  /\ \E r \in FetchResults :
       /\ trouble' = IF r \in {"raise", "none"}
                     THEN Trouble("fetch", IF r = "raise" THEN r ELSE "nothing")
                     ELSE trouble
       /\ IF FetchFailure(driver, r) # Null
          THEN /\ log_failure(CurrentId, FetchFailure(driver, r), TRUE)
               /\ NextArticle
          ELSE /\ pc' = "extract"
               /\ UNCHANGED <<idx, extracted, storeVars>>
  /\ attempted' = attempted \cup {CurrentId}
  /\ UNCHANGED <<iterations, driver, statusAtStart, lastEnd, updFailed,
                 driverFrame>>

\* extracted_data = await data_extractor.extract_all_data(...): a result
\* (possibly empty) or an exception.  enhanced_main records an empty result
\* as a failure; main.py goes on with it.
DriverExtract ==
  /\ pc = "extract"
  /\ \/ /\ log_failure(CurrentId, ExceptionText, TRUE)
        /\ NextArticle
        /\ trouble' = Trouble("extract", "raise")
     \/ \E d \in {EmptyResult, ResultA} :
          /\ trouble' = IF d = EmptyResult THEN Trouble("extract", "nothing")
                        ELSE trouble
          /\ IF d = EmptyResult /\ driver = "enhanced"
             THEN /\ log_failure(CurrentId, "No structured data extracted",
                                 TRUE)
                  /\ NextArticle
             ELSE /\ extracted' = d
                  /\ pc' = "update"
                  /\ UNCHANGED <<idx, storeVars>>
  /\ attempted' = attempted \cup {CurrentId}
  /\ UNCHANGED <<iterations, driver, statusAtStart, lastEnd, updFailed,
                 driverFrame>>

\* sheets_client.update_extracted_data: True, False (HttpError on the batch
\* update, only when there is something to write) or an exception
\* (authentication failure, any other error).  Both drivers ignore the
\* returned value.
UpdateResults == {"true", "false", "raise"}

DriverUpdate ==
  /\ pc = "update"
  /\ \E r \in UpdateResults :
       /\ r = "false" => extracted # EmptyResult
       /\ updFailed' = IF r # "true" /\ extracted # EmptyResult
                       THEN [id |-> CurrentId, data |-> extracted,
                             at |-> Len(processing_log)]
                       ELSE updFailed
       /\ trouble' = IF r = "raise" THEN Trouble("update", "raise")
                     ELSE trouble
       /\ IF r = "raise"
          THEN /\ log_failure(CurrentId, ExceptionText, TRUE)
               /\ NextArticle
          ELSE /\ pc' = "log"
               /\ UNCHANGED <<idx, extracted, storeVars>>
  /\ attempted' = attempted \cup {CurrentId}
  /\ UNCHANGED <<iterations, driver, statusAtStart, lastEnd, driverFrame>>

\* progress_tracker.log_success(article_id, extracted_data)
DriverLogSuccess ==
  /\ pc = "log"
  /\ log_success(CurrentId, extracted, TRUE)
  /\ NextArticle
  /\ UNCHANGED <<trouble, iterations, driver, statusAtStart, attempted,
                 lastEnd, updFailed, driverFrame>>

\* The for loop is exhausted: final summary
DriverFinish ==
  /\ pc = "check"
  /\ idx = MaxItems + 1
  /\ pc' = "done"
  /\ UNCHANGED <<trouble, iterations, driver, idx, extracted, statusAtStart, attempted,
                 lastEnd, updFailed, storeVars, driverFrame>>

\* KeyboardInterrupt between two calls of the loop body: the run ends, what
\* was committed to the database stays.  (An iteration cut short between a
\* failed update and log_success is not observed further.)
Interrupt ==
  /\ pc \notin {"idle", "done"}
  /\ pc' = "idle"
  /\ lastEnd' = "interrupted"
  /\ updFailed' = IF pc = "log" THEN NoUpdate ELSE updFailed
  /\ UNCHANGED <<trouble, iterations, driver, idx, extracted, statusAtStart, attempted,
                 storeVars, driverFrame>>

\* The drivers before the first run
DriverIdle ==
  /\ iterations = 0
  /\ driver = "none"
  /\ pc = "idle"
  /\ idx = 1
  /\ extracted = EmptyResult
  /\ statusAtStart = [id \in ArticleIds |-> "absent"]
  /\ attempted = {}
  /\ lastEnd = "none"
  /\ updFailed = NoUpdate
  /\ trouble = NoTrouble
  /\ lastOp = NoOp

DriverInit ==
  /\ StoreInit
  /\ DriverIdle
  /\ RateIdle
  /\ FetchIdle
  /\ KeyIdle
  /\ CacheIdle
  /\ PdfIdle
  /\ UrlIdle
  /\ ExtractIdle
  /\ SheetIdle
  /\ RunnerIdle
  /\ ModeIdle

NextDriver ==
  \/ StartRun(Drivers)
  \/ CheckProcessed
  \/ RateWait
  \/ DriverStart
  \/ DriverFetch
  \/ DriverExtract
  \/ DriverUpdate
  \/ DriverLogSuccess
  \/ DriverFinish
  \/ Interrupt

vars == <<storeVars, driverVars, lastOp, rateVars, fetchVars, keyVars,
         cacheVars, pdfVars, urlVars, extractVars, sheetVars, runnerVars, modeVars>>

\* Runs of main.py and enhanced_main.py, in any order, on one database
SpecDriver == DriverInit /\ [][NextDriver]_vars

\* enhanced_main.py run again and again on one database
NextResume ==
  \/ StartRun({"enhanced"})
  \/ CheckProcessed
  \/ RateWait
  \/ DriverStart
  \/ DriverFetch
  \/ DriverExtract
  \/ DriverUpdate
  \/ DriverLogSuccess
  \/ DriverFinish
  \/ Interrupt

SpecResume == DriverInit /\ [][NextResume]_vars

\* Events of one type logged for an article
Events(id, type) ==
  {k \in DOMAIN processing_log :
     processing_log[k].article_id = id /\ processing_log[k].event_type = type}

C2_AtMostOneSuccess ==
  \A id \in ArticleIds : Cardinality(Events(id, "success")) <= 1

\* C10: No extraction work is lost on a persistence failure: once the
\* iteration in which the backend update failed (returned False or raised)
\* for a non-empty extraction result is over, the database holds the result's
\* field rows for that article, a success event and a failure event, both
\* logged after the failed update.
C10_NoWorkLostOnUpdateFailure ==
  (updFailed # NoUpdate /\ pc \in {"check", "done"}) =>
    /\ \A k \in DOMAIN DataRows(updFailed.id, updFailed.data) :
         \E j \in DOMAIN extraction_data :
           extraction_data[j] = DataRows(updFailed.id, updFailed.data)[k]
    /\ \E k \in Events(updFailed.id, "success") : k > updFailed.at
    /\ \E k \in Events(updFailed.id, "failure") : k > updFailed.at

\* C11: A single item's failure never aborts the batch: for any item whose
\* fetch, extraction or backend update raises or yields nothing, the driver
\* loop records a failure for that item and still attempts every later
\* eligible item of the work list, and the run reaches its final summary
\* with every article that was not completed attempted.
C11_FailureNeverAbortsBatch ==
  /\ (trouble # NoTrouble /\ pc \in {"check", "done"}) =>
       \E k \in Events(trouble.id, "failure") : k > trouble.at
  /\ pc = "done" =>
       \A id \in ArticleIds : statusAtStart[id] # "completed" => id \in attempted

\* The reasons the drivers log when the fetch gave no content
NoContentReasons == {"Failed to fetch full text", "No content found"}

\* The stage that the row of a failed article tells: the table has no column
\* for it, so it is what the error message says.  The messages the drivers
\* write themselves name their stage; the text of an exception does not.
RecordedStage(row) ==
  CASE row.error_message \in {"Failed to fetch full text", "No content found",
                              "Insufficient content"} -> "fetch"
    [] row.error_message = "No structured data extracted" -> "extract"
    [] OTHER -> "unknown"

\* C21: Failures carry their stage: every failure the driver records has the
\* stage at which it occurred (fetch, extract or update), and that stage can
\* be read back from the row of the article.
C21_FailureCarriesStage ==
  (/\ trouble # NoTrouble
   /\ pc \in {"check", "done"}
   /\ \E k \in Events(trouble.id, "failure") : k > trouble.at) =>
    /\ articles[trouble.id] # NoRow
    /\ articles[trouble.id].status = "failed"
    /\ RecordedStage(articles[trouble.id]) = trouble.stage

\* C14: Empty extraction is a failure distinct from no content: in both
\* drivers, once the iteration in which extract_all_data returned an empty
\* result is over, a failure event with a reason other than the no-content
\* reasons has been logged for the article, no success event has, and the
\* article is not completed.
C14_EmptyExtractionIsFailure ==
  (/\ trouble # NoTrouble
   /\ trouble.stage = "extract"
   /\ trouble.kind = "nothing"
   /\ pc \in {"check", "done"}) =>
    /\ \E k \in Events(trouble.id, "failure") :
         k > trouble.at /\ processing_log[k].message \notin NoContentReasons
    /\ \A k \in Events(trouble.id, "success") : k <= trouble.at
    /\ ~is_processed(trouble.id)

-----------------------------------------------------------------------------
\* ProgressTracker called directly, in any order, on any article; the SQLite
\* write of an operation may fail (disk full, database locked).

MaxEvents == 3   \* rows of processing_log

WriteOps == {"start_processing", "log_success", "log_failure"}

\* How a method ends when its write raised: each of the three methods wraps
\* its body in "try: ... except Exception as e: self.logger.error(...)" with
\* no raise in the handler, so the caller sees a normal return.
ExceptClause(op) ==
  CASE op \in WriteOps -> "returned"

OpOutcome(op, dbOk) == IF dbOk THEN "returned" ELSE ExceptClause(op)

\* The call before the one lastOp describes
PrevOp ==
  IF lastOp = NoOp THEN NoOp
  ELSE [op |-> lastOp.op, id |-> lastOp.id, dbOk |-> lastOp.dbOk]

storeFrame == <<driverVars, rateVars, fetchVars, keyVars, cacheVars, pdfVars,
    urlVars, extractVars, sheetVars, runnerVars, modeVars>>

StoreStart ==
  /\ Len(processing_log) < MaxEvents
  /\ \E id \in ArticleIds, dbOk \in BOOLEAN :
       /\ start_processing(id, dbOk)
       /\ lastOp' = [op |-> "start_processing", id |-> id,
                     data |-> EmptyResult, dbOk |-> dbOk,
                     outcome |-> OpOutcome("start_processing", dbOk),
                     prev |-> PrevOp]
  /\ UNCHANGED storeFrame

StoreSuccess ==
  /\ Len(processing_log) < MaxEvents
  /\ \E id \in ArticleIds, data \in ExtractionResults, dbOk \in BOOLEAN :
       /\ log_success(id, data, dbOk)
       /\ lastOp' = [op |-> "log_success", id |-> id, data |-> data,
                     dbOk |-> dbOk,
                     outcome |-> OpOutcome("log_success", dbOk),
                     prev |-> PrevOp]
  /\ UNCHANGED storeFrame

\* The message given to log_failure
FailureMessage == "No content found"

StoreFailure ==
  /\ Len(processing_log) < MaxEvents
  /\ \E id \in ArticleIds, dbOk \in BOOLEAN :
       /\ log_failure(id, FailureMessage, dbOk)
       /\ lastOp' = [op |-> "log_failure", id |-> id, data |-> EmptyResult,
                     dbOk |-> dbOk,
                     outcome |-> OpOutcome("log_failure", dbOk),
                     prev |-> PrevOp]
  /\ UNCHANGED storeFrame

NextStore ==
  \/ StoreStart
  \/ StoreSuccess
  \/ StoreFailure

SpecStore == DriverInit /\ [][NextStore]_vars

\* C3: record_success sets status completed: once log_success(id, result)
\* has returned (its write having gone through), is_processed(id) is true
\* and id is among get_processed_articles, whether or not start_processing
\* or log_failure was called for id before.
C3_SuccessSetsCompleted ==
  (lastOp.op = "log_success" /\ lastOp.dbOk /\ lastOp.outcome = "returned") =>
    /\ is_processed(lastOp.id)
    /\ lastOp.id \in get_processed_articles

\* C9: Storage write failures propagate: when the write of start_processing,
\* log_success or log_failure fails, the operation does not return normally.
C9_WriteFailurePropagates ==
  (lastOp.op \in WriteOps /\ ~lastOp.dbOk) => lastOp.outcome = "raised"

\* log_failure(id, ...) directly followed by log_success(id, ...), the
\* writes of both having gone through
FailureThenSuccess ==
  /\ lastOp.op = "log_success"
  /\ lastOp.dbOk
  /\ lastOp.prev.op = "log_failure"
  /\ lastOp.prev.id = lastOp.id
  /\ lastOp.prev.dbOk

C27_FailureOnUnknownItem ==
  [][(lastOp'.op = "log_failure" /\ lastOp'.dbOk) =>
       LET id == lastOp'.id
       IN /\ articles'[id] # NoRow
          /\ articles'[id].status = "failed"
          /\ articles'[id].error_message = FailureMessage
          /\ \A other \in ArticleIds \ {id} : articles'[other] = articles[other]
          /\ processing_log' =
               Append(processing_log,
                      [article_id |-> id, event_type |-> "failure",
                       message |-> FailureMessage])
          /\ extraction_data' = extraction_data]_vars

\* C27 witness: log_failure was the first call on the database, its id had
\* no row, and now has a failed one
C27_Witness ==
  /\ lastOp.op = "log_failure"
  /\ lastOp.dbOk
  /\ lastOp.prev = NoOp
  /\ articles[lastOp.id].status = "failed"
  /\ articles[lastOp.id].error_message = FailureMessage
  /\ Len(processing_log) = 1

\* The rows of processing_log of one article, in insertion order
LogOf(log, id) == SelectSeq(log, LAMBDA e : e.article_id = id)

IsPrefix(a, b) == Len(a) <= Len(b) /\ SubSeq(b, 1, Len(a)) = a

\* event_type of the row each method inserts into processing_log
EventType(op) ==
  CASE op = "start_processing" -> "start"
    [] op = "log_success" -> "success"
    [] op = "log_failure" -> "failure"

\* C39: The event log is append-only: no operation of the ProgressTracker
\* removes or alters a row of processing_log; a call of start_processing,
\* log_success or log_failure whose write goes through appends exactly one
\* event, of type start, success or failure, for its article (a call whose
\* write fails leaves the log as it is); so the log of every article is a
\* prefix of its later log.
C39_AppendOnlyLog ==
  [][/\ IsPrefix(processing_log, processing_log')
     /\ \A id \in ArticleIds :
          IsPrefix(LogOf(processing_log, id), LogOf(processing_log', id))
     /\ IF lastOp'.dbOk
        THEN /\ Len(processing_log') = Len(processing_log) + 1
             /\ processing_log'[Len(processing_log')].article_id = lastOp'.id
             /\ processing_log'[Len(processing_log')].event_type =
                  EventType(lastOp'.op)
             /\ \A other \in ArticleIds \ {lastOp'.id} :
                  LogOf(processing_log', other) = LogOf(processing_log, other)
        ELSE processing_log' = processing_log]_vars

\* C39 witness: an article with a start, a success and a failure event,
\* appended by three calls for it; the log_success before the latest call
\* went through
C39_Witness ==
  /\ Len(processing_log) = 3
  /\ lastOp.op = "log_failure"
  /\ lastOp.dbOk
  /\ lastOp.prev.op = "log_success"
  /\ lastOp.prev.dbOk
  /\ \A k \in 1..3 : processing_log[k].article_id = lastOp.id
  /\ processing_log[1].event_type = "start"
  /\ processing_log[2].event_type = "success"
  /\ processing_log[3].event_type = "failure"

\* _export_to_csv: the header, then one row for every pair of a row of
\* articles with status 'completed' and a row of extraction_data of that
\* article (JOIN ... WHERE a.status = 'completed' ORDER BY a.id ...; the
\* order among the rows of one article is not followed)
CsvHeader == [row |-> "header"]

export_to_csv ==
  LET joined(id) ==
        IF articles[id] # NoRow /\ articles[id].status = "completed"
        THEN LET ofId == SelectSeq(extraction_data,
                                   LAMBDA e : e.article_id = id)
             IN [k \in 1..Len(ofId) |->
                   [id |-> id,
                    category |-> ofId[k].category,
                    field_name |-> ofId[k].field_name,
                    field_value |-> ofId[k].field_value,
                    full_text_source |-> articles[id].full_text_source]]
        ELSE << >>
      RECURSIVE from(_)
      from(k) == IF k > MaxItems THEN << >>
                 ELSE joined(WorkList[k]) \o from(k + 1)
  IN <<CsvHeader>> \o from(1)

\* _export_to_json: one entry for every row of articles (SELECT ... FROM
\* articles a ORDER BY a.id, without a WHERE), with the fields of its rows
\* of extraction_data.  Where several rows have one category and field
\* name, the dict keeps the value of the one SQLite returns last: values
\* holds the candidates.
export_to_json ==
  LET extracted_data(id) ==
        {[category |-> e.category, field_name |-> e.field_name,
          values |-> {extraction_data[j].field_value :
                        j \in {i \in DOMAIN extraction_data :
                                 /\ extraction_data[i].article_id = id
                                 /\ extraction_data[i].category = e.category
                                 /\ extraction_data[i].field_name
                                      = e.field_name}}] :
           e \in {extraction_data[i] :
                    i \in {j \in DOMAIN extraction_data :
                             extraction_data[j].article_id = id}}}
      entry(id) ==
        IF articles[id] = NoRow THEN << >>
        ELSE << [id |-> id, status |-> articles[id].status,
                 full_text_source |-> articles[id].full_text_source,
                 extraction_summary |->
                   IF articles[id].summary = Null THEN << >>
                   ELSE articles[id].summary,
                 extracted_data |-> extracted_data(id)] >>
      RECURSIVE from(_)
      from(k) == IF k > MaxItems THEN << >>
                 ELSE entry(WorkList[k]) \o from(k + 1)
  IN from(1)

\* The number of fields of an extraction result, from its summary
RECURSIVE FieldCount(_)
FieldCount(summary) ==
  IF summary = << >> THEN 0
  ELSE Head(summary)[2] + FieldCount(Tail(summary))

\* The fields of the results of the completed articles
RECURSIVE CompletedFields(_)
CompletedFields(k) ==
  IF k > MaxItems THEN 0
  ELSE (IF is_processed(WorkList[k])
        THEN FieldCount(articles[WorkList[k]].summary) ELSE 0)
       + CompletedFields(k + 1)

\* C22: Tabular export row count: after any sequence of start_processing,
\* log_success and log_failure, the CSV export is one header row followed by
\* exactly one data row per (completed article, category, field) of that
\* article's extraction result: its data rows number the sum over the
\* completed articles of the fields in their result.
C22_CsvRowCount ==
  /\ Head(export_to_csv) = CsvHeader
  /\ Len(export_to_csv) - 1 = CompletedFields(1)

\* C23: Export covers completed items only: for csv and json, the export
\* contains the field data of every completed article and contains no
\* article whose status is processing or failed.
C23_ExportCompletedOnly ==
  LET csv == Tail(export_to_csv)
      json == export_to_json
  IN /\ \A k \in DOMAIN csv :
          articles[csv[k].id].status \notin {"processing", "failed"}
     /\ \A k \in DOMAIN json : json[k].status \notin {"processing", "failed"}
     /\ \A i \in DOMAIN extraction_data :
          LET e == extraction_data[i]
          IN is_processed(e.article_id) =>
               /\ \E k \in DOMAIN csv :
                    /\ csv[k].id = e.article_id
                    /\ csv[k].category = e.category
                    /\ csv[k].field_name = e.field_name
                    /\ csv[k].field_value = e.field_value
               /\ \E k \in DOMAIN json :
                    /\ json[k].id = e.article_id
                    /\ \E f \in json[k].extracted_data :
                         /\ f.category = e.category
                         /\ f.field_name = e.field_name
                         /\ e.field_value \in f.values

-----------------------------------------------------------------------------
\* RateLimiter._wait_for_service, called sequentially at arbitrary times

MaxClock == 125  \* the clock is followed up to this second
MaxCalls == 4    \* calls of _wait_for_service, over all services

\* Seconds that may pass between two calls
TickSteps == {20, 59, 60}

\* while timestamps and timestamps[0] < one_minute_ago: timestamps.popleft()
RECURSIVE Purge(_, _)
Purge(ts, t) ==
  IF ts # << >> /\ Head(ts) < t - Window THEN Purge(Tail(ts), t) ELSE ts

\* wait_seconds, when the purged deque holds at least limit timestamps;
\* asyncio.sleep is only called for a positive wait
WaitSeconds(ts, limit, t) ==
  IF Len(ts) >= limit /\ (Head(ts) + Window) - t > 0
  THEN (Head(ts) + Window) - t
  ELSE 0

\* The timestamp recorded for the request: "now" as read at line 62, on
\* entry, before any sleep
Recorded(entry, wake) == entry

rateFrame ==
  <<storeVars, driverVars, lastOp, fetchVars, keyVars, cacheVars, pdfVars,
    urlVars, extractVars, sheetVars, runnerVars, modeVars>>

\* One call of _wait_for_service(service): purge, sleep until the oldest
\* timestamp leaves the window, sleep the base delay, record the request.
\* The clock stands at the time the call returns.
WaitForService ==
  /\ Len(admissions["sheets"]) + Len(admissions["api"])
       + Len(admissions["azure"]) < MaxCalls
  /\ \E service \in Services :
       LET ts == Purge(request_timestamps[service], now)
           wake == now + WaitSeconds(ts, limits[service], now) + base_delay
       IN /\ wake <= MaxClock
          /\ now' = wake
          /\ request_timestamps' =
               [request_timestamps EXCEPT
                  ![service] = Append(ts, Recorded(now, wake))]
          /\ admissions' =
               [admissions EXCEPT ![service] = Append(@, wake)]
          /\ waits' =
               [waits EXCEPT
                  ![service] =
                    Append(@, [entry |-> now,
                               wait_seconds |->
                                 WaitSeconds(ts, limits[service], now)])]
  /\ UNCHANGED <<base_delay, rateFrame>>

\* Time passes between two calls
Tick ==
  /\ \E d \in TickSteps :
       /\ now + d <= MaxClock
       /\ now' = now + d
  /\ UNCHANGED <<request_timestamps, base_delay, admissions, waits, rateFrame>>

\* Configured base delays: none, the default of one second, and the delay
\* that stands to the smallest limit as the default 1.0 s stands to the
\* default limit of 60 requests per minute
BaseDelays == {0, 1, Window \div SheetsLimit}

RateInit ==
  /\ RateEmpty
  /\ base_delay \in BaseDelays
  /\ StoreInit
  /\ DriverIdle
  /\ FetchIdle
  /\ KeyIdle
  /\ CacheIdle
  /\ PdfIdle
  /\ UrlIdle
  /\ ExtractIdle
  /\ SheetIdle
  /\ RunnerIdle
  /\ ModeIdle

NextRate ==
  \/ WaitForService
  \/ Tick

SpecRate == RateInit /\ [][NextRate]_vars

\* Admissions of a service inside the 60 seconds that end at time t
AdmittedInWindow(service, t) ==
  {k \in DOMAIN admissions[service] :
     admissions[service][k] > t - Window /\ admissions[service][k] <= t}

\* C4: Rate limit: for each service, the number of admissions granted inside
\* any trailing 60-second window never exceeds the service's limit.
C4_RateLimitHolds ==
  \A service \in Services :
    \A k \in DOMAIN admissions[service] :
      Cardinality(AdmittedInWindow(service, admissions[service][k]))
        <= limits[service]

\* Timestamps of a deque inside the 60 seconds that end at time t
QueuedInWindow(ts, t) ==
  {k \in DOMAIN ts : ts[k] > t - Window /\ ts[k] <= t}

\* C17: RateWindow invariant: in every reachable state and for each service,
\* the timestamp queue holds at most limit timestamps inside any trailing
\* 60-second window, and at each admission check (after the purge) no
\* timestamp older than 60 seconds remains in the queue.
C17_RateWindowInvariant ==
  \A service \in Services :
    LET ts == request_timestamps[service]
        checked == Purge(ts, now)
    IN /\ \A k \in DOMAIN ts :
            Cardinality(QueuedInWindow(ts, ts[k])) <= limits[service]
       /\ \A k \in DOMAIN checked : checked[k] >= now - Window

\* C18: Bounded suspension: when _wait_for_service is called N+1 times in
\* immediate succession (each call entering when the one before returned)
\* on a new limiter for a service whose limit is N, the window suspends the
\* (N+1)th call for more than 0 and at most 60 seconds.
C18_BoundedSuspension ==
  \A service \in Services :
    LET N == limits[service]
        calls == waits[service]
    IN (/\ Len(calls) >= N + 1
        /\ \A k \in 1..N : calls[k + 1].entry = admissions[service][k]) =>
         /\ calls[N + 1].wait_seconds > 0
         /\ calls[N + 1].wait_seconds <= Window

-----------------------------------------------------------------------------
\* ArticleFetcher.fetch_article, one source at a time

fetchFrame ==
  <<storeVars, driverVars, lastOp, rateVars, keyVars, cacheVars, pdfVars,
    urlVars, extractVars, sheetVars, runnerVars, modeVars>>

\* fetch_article(article): the identifiers are read and stripped
FetchArticle ==
  /\ fPc \in {"idle", "done"}
  /\ \E d \in FetchIdents, u \in FetchIdents, p \in {<< >>, <<"7">>} :
       fArticle' = [doi |-> d, pmid |-> p, url |-> u]
  /\ fPc' = "loop"
  /\ fIdx' = 1
  /\ fTried' = << >>
  /\ fResult' = None
  /\ fSource' = "none"
  /\ UNCHANGED fetchFrame

\* One iteration of the for loop: a source without identifier is skipped;
\* otherwise it is called, and its content is returned, cleaned, if it passes
\* the threshold; an exception or any other content moves on
TrySource ==
  /\ fPc = "loop"
  /\ fIdx <= Len(Sources)
  /\ LET src == Sources[fIdx]
         identifier == StripId(fArticle[src.ident])
     IN IF identifier = << >>
        THEN /\ fIdx' = fIdx + 1
             /\ UNCHANGED <<fPc, fTried, fResult, fSource>>
        ELSE \E content \in SourceOutcomes :
               /\ fTried' = Append(fTried, [source |-> src.name,
                                            content |-> content])
               /\ IF Accepts(content)
                  THEN /\ fResult' = Text(clean_text(content.text))
                       /\ fSource' = src.name
                       /\ fPc' = "done"
                       /\ UNCHANGED fIdx
                  ELSE /\ fIdx' = fIdx + 1
                       /\ UNCHANGED <<fPc, fResult, fSource>>
  /\ UNCHANGED <<fArticle, fetchFrame>>

\* After the loop: _fetch_metadata_only, which asks PubMed if there is a pmid
MetadataOnly ==
  /\ fPc = "loop"
  /\ fIdx > Len(Sources)
  /\ \E metadata \in {None, MetadataText} :
       /\ (StripId(fArticle.pmid) = << >>) => metadata = None
       /\ fResult' = metadata
       /\ fSource' = IF metadata = None THEN "none" ELSE "metadata"
  /\ fPc' = "done"
  /\ UNCHANGED <<fArticle, fIdx, fTried, fetchFrame>>

\* What the steps of the batch driver around fetch_article leave alone
fetchDriverFrame ==
  <<driverVars, lastOp, rateVars, keyVars, cacheVars, pdfVars, urlVars, extractVars, sheetVars, runnerVars, modeVars>>

\* The article the driver is at
FetchedId == WorkList[1]

\* enhanced_main.py calls start_processing before fetch_article; main.py
\* does not
FetchStartProcessing ==
  /\ fPc = "idle"
  /\ articles[FetchedId] = NoRow
  /\ start_processing(FetchedId, TRUE)
  /\ UNCHANGED <<fetchVars, fetchDriverFrame>>

\* The driver after fetch_article returned a text: the data are extracted
\* and written to the sheet, then log_success(article_id, extracted_data);
\* the call has no argument for the source
FetchLogSuccess ==
  /\ fPc = "done"
  /\ fResult # None
  /\ log_success(FetchedId, ResultA, TRUE)
  /\ fPc' = "logged"
  /\ UNCHANGED <<fArticle, fIdx, fTried, fResult, fSource, fetchDriverFrame>>

NextFetch ==
  \/ FetchArticle
  \/ TrySource
  \/ MetadataOnly
  \/ FetchStartProcessing
  \/ FetchLogSuccess

SpecFetch == DriverInit /\ [][NextFetch]_vars

\* fetch_article alone, called again and again
NextChain ==
  \/ FetchArticle
  \/ TrySource
  \/ MetadataOnly

SpecChain == DriverInit /\ [][NextChain]_vars

\* The sources called whose text, once cleaned, is above the threshold
AboveThreshold ==
  {k \in DOMAIN fTried :
     /\ IsText(fTried[k].content)
     /\ TextLen(clean_text(fTried[k].content.text)) > MinContent}

\* C5: Fallback chain result: fetch_article returns the (cleaned) content of
\* the first source, in priority order, whose content exceeds the threshold
\* of 500 characters; results at or below the threshold and exceptions never
\* stop the chain and never become the result.
C5_FirstAboveThresholdWins ==
  fPc = "done" =>
    /\ \A k \in AboveThreshold :
         (\A j \in AboveThreshold : k <= j) =>
           /\ fResult = Text(clean_text(fTried[k].content.text))
           /\ fSource = fTried[k].source
    /\ fSource \notin {"none", "metadata"} =>
         TextLen(fResult.text) > MinContent

\* C30: Threshold applies to the returned text: every full-text result that
\* fetch_article returns from a source of the chain is a text that, in the
\* cleaned form returned, is longer than the minimum content threshold of
\* 500 characters.
C30_ReturnedTextAboveThreshold ==
  \A k \in DOMAIN fTried :
    (fPc # "loop" /\ fSource = fTried[k].source) =>
      /\ IsText(fResult)
      /\ TextLen(fResult.text) > MinContent

\* The sources of the chain that have an identifier, in priority order
Candidates ==
  SelectSeq(Sources, LAMBDA src : StripId(fArticle[src.ident]) # << >>)

\* C31: Invocation order of the chain: at every moment the sources called so
\* far are the first candidates (the sources whose identifier is not empty)
\* in the priority order DOI direct, Direct URL, Unpaywall, CrossRef, PubMed
\* Central, Scopus URL, arXiv, with none left out; every source called
\* before the latest one was rejected, and the loop goes on only while every
\* source called was rejected.
C31_InvocationOrder ==
  /\ Len(fTried) <= Len(Candidates)
  /\ \A k \in DOMAIN fTried :
       /\ fTried[k].source = Candidates[k].name
       /\ (k < Len(fTried) \/ fPc = "loop") =>
            /\ ~Accepts(fTried[k].content)
            /\ k \notin AboveThreshold
  /\ (fPc \in {"done", "logged"} /\ fSource \in {"none", "metadata"}) =>
       Len(fTried) = Len(Candidates)

\* C31 witness: an article with a DOI and no URL; DOI direct and Unpaywall
\* were rejected, CrossRef was accepted and the chain stopped there
C31_Witness ==
  /\ fPc = "done"
  /\ StripId(fArticle.url) = << >>
  /\ fArticle.url # << >>
  /\ Len(fTried) = 3
  /\ fTried[2].source = "Unpaywall"
  /\ fTried[3].source = "CrossRef"
  /\ Accepts(fTried[3].content)
  /\ fSource = "CrossRef"

\* What every caller of fetch_article tests with "if not ...": None or the
\* empty string
NoContent(result) ==
  result = None \/ (IsText(result) /\ result.text = << >>)

\* _fetch_metadata_only was called, and what it came to is the result
MetadataAttempted ==
  fPc = "done" /\ fSource \in {"none", "metadata"}

\* Every candidate source was called and none gave content above the
\* threshold
AllRejected ==
  /\ Len(fTried) = Len(Candidates)
  /\ \A k \in DOMAIN fTried :
       ~Accepts(fTried[k].content) /\ k \notin AboveThreshold

\* C33: Metadata-only fallback and terminal failure: _fetch_metadata_only is
\* called only after every candidate source was called and rejected, and a
\* finished fetch_article hands back no content exactly when every candidate
\* source was rejected and the metadata-only synthesis came out empty.
C33_MetadataFallbackAndFailure ==
  /\ MetadataAttempted => AllRejected
  /\ fPc = "done" =>
       (NoContent(fResult) <=>
          (AllRejected /\ MetadataAttempted /\ fSource = "none"))

\* Has the text two whitespace characters in a row, or a character that is
\* neither printable ASCII nor whitespace
HasWhitespaceRun(t) ==
  \/ \E k \in DOMAIN t : t[k].c = "s" /\ t[k].n >= 2
  \/ \E k \in 1..(Len(t) - 1) : t[k].c = "s" /\ t[k + 1].c = "s"
HasNonPrintable(t) == \E k \in DOMAIN t : t[k].c = "x"

\* C36: Every text fetch_article returns, from a source or from the
\* metadata-only fallback, has no run of two or more whitespace characters
\* and no non-printable character, and _clean_text leaves it unchanged.
C36_NormalizedOutput ==
  (fPc = "done" /\ IsText(fResult)) =>
    /\ ~HasWhitespaceRun(fResult.text)
    /\ ~HasNonPrintable(fResult.text)
    /\ clean_text(fResult.text) = fResult.text

\* C20: source_used is recorded: when fetch_article accepts the content of a
\* source, that source's name is the source used, and after the item is
\* recorded as succeeded the full_text_source field of its row in the
\* progress database holds that name.
C20_SourceUsedRecorded ==
  (fPc = "logged" /\ fSource \notin {"none", "metadata"}) =>
    /\ articles[FetchedId] # NoRow
    /\ articles[FetchedId].full_text_source = fSource

-----------------------------------------------------------------------------
\* PdfProcessor.extract_text_from_pdf on any argument

extractFrame ==
  <<storeVars, driverVars, lastOp, rateVars, fetchVars, keyVars, cacheVars,
    pdfVars, urlVars, sheetVars, runnerVars, modeVars>>

\* One call: the argument, whether pdfplumber is installed, whether it
\* opens the file, and the pages whose extract_text raises
ExtractCall ==
  /\ \E arg \in ExtractArguments, has_pdfplumber \in BOOLEAN,
        opens \in BOOLEAN, page_errors \in SUBSET {1, 2} :
       /\ xInput' = [arg |-> arg, has_pdfplumber |-> has_pdfplumber,
                     opens |-> opens, page_errors |-> page_errors]
       /\ xResult' = pdf_extract(arg, has_pdfplumber, opens, page_errors)
  /\ UNCHANGED extractFrame

NextExtract == ExtractCall

SpecExtract == DriverInit /\ [][NextExtract]_vars

\* C24: extract never raises: for any input (bytes not starting with the
\* document signature, a path to a missing file, an unsupported input type,
\* or a document whose parsing fails on any page) extract_text_from_pdf
\* returns a text or None; input that does not start with the signature
\* always yields None.
C24_ExtractNeverRaises ==
  xResult # NotCalled =>
    /\ xResult.kind \in {"text", "None"}
    /\ (/\ xInput.arg.type \in {"bytes", "path"}
        /\ ~validate_pdf(xInput.arg.doc)) => xResult = None

-----------------------------------------------------------------------------
\* PdfProcessor._extract_text_from_pdf_object and _post_process_text under
\* any PdfConfig.  A page is the length of its text after _clean_page_text
\* (one line, stripped); lengths are scaled down.

MaxPages == 3
PageLengths == {0, 3, 4, 8}
PdfPages == UNION {[1..n -> PageLengths] : n \in 1..MaxPages}

\* PdfConfig: page_chunk_size, min_page_text_length, max_text_length
PdfConfigs ==
  [page_chunk_size : {1, 2}, min_page_text_length : {2, 4},
   max_text_length : {8, 12}]

\* The inner loop, "for page_num in range(start_page, end_page)": the text
\* of a page is kept if it is longer than min_page_text_length; the loop
\* breaks once the kept text exceeds max_text_length
RECURSIVE PageLoop(_, _, _, _, _, _)
PageLoop(pages, page_num, end_page, pages_text, chunk_text, config) ==
  IF page_num >= end_page
  THEN [chunk_text |-> chunk_text, read |-> page_num]
  ELSE LET page_text == pages[page_num + 1]
           chunk == IF page_text > 0 /\ page_text > config.min_page_text_length
                    THEN Append(chunk_text, page_text) ELSE chunk_text
       IN IF Sum(pages_text \o chunk) > config.max_text_length
          THEN [chunk_text |-> chunk, read |-> page_num + 1]
          ELSE PageLoop(pages, page_num + 1, end_page, pages_text, chunk,
                        config)

\* The outer loop, "for start_page in range(0, total_pages, chunk_size)"
RECURSIVE ChunkLoop(_, _, _, _)
ChunkLoop(pages, start_page, pages_text, config) ==
  IF start_page >= Len(pages)
  THEN [pages_text |-> pages_text, read |-> Len(pages)]
  ELSE LET last == start_page + config.page_chunk_size
           end_page == IF last < Len(pages) THEN last ELSE Len(pages)
           chunk == PageLoop(pages, start_page, end_page, pages_text, << >>,
                             config)
           extended == pages_text \o chunk.chunk_text
       IN IF Sum(extended) > config.max_text_length
          THEN [pages_text |-> extended, read |-> chunk.read]
          ELSE ChunkLoop(pages, last, extended, config)

\* _post_process_text of "\n\n".join(pages_text): the lines of more than
\* three characters, joined by one line break, cut at max_text_length with
\* the marker appended
post_process_text(pages_text, config) ==
  LET cleaned_lines == SelectSeq(pages_text, LAMBDA line : line > 3)
      final_text == IF cleaned_lines = << >> THEN 0
                    ELSE Sum(cleaned_lines) + (Len(cleaned_lines) - 1)
  IN IF final_text > config.max_text_length
     THEN Extracted(config.max_text_length + TruncationMarker, TRUE)
     ELSE Extracted(final_text, FALSE)

\* _extract_text_from_pdf_object: None if no page was kept
extract_text_from_pdf_object(pages, config) ==
  LET loop == ChunkLoop(pages, 0, << >>, config)
  IN IF loop.pages_text = << >> THEN None
     ELSE post_process_text(loop.pages_text, config)

\* One call on an opened PDF
ExtractObject ==
  /\ \E pages \in PdfPages, config \in PdfConfigs :
       /\ xInput' = [pages |-> pages, config |-> config]
       /\ xResult' = extract_text_from_pdf_object(pages, config)
  /\ UNCHANGED extractFrame

NextCap == ExtractObject

SpecCap == DriverInit /\ [][NextCap]_vars

\* The loops stopped before the last page
StoppedEarly ==
  ChunkLoop(xInput.pages, 0, << >>, xInput.config).read < Len(xInput.pages)

\* The text returned lacks the end of the text of the pages kept: the line
\* of the last page kept is left out, or the text was cut
TailDropped ==
  LET pages_text == ChunkLoop(xInput.pages, 0, << >>, xInput.config).pages_text
  IN \/ pages_text[Len(pages_text)] <= 3
     \/ xResult.truncated

\* C35: No silent cut: for every document and every PdfConfig, a text that
\* extraction returns after it stopped before the last page because of the
\* length cap, or without the end of the text of the pages it kept, ends
\* with the truncation marker; and no text returned is longer than
\* max_text_length plus the marker.
C35_NoSilentCut ==
  (xResult # NotCalled /\ xResult.kind = "text") =>
    /\ (StoppedEarly \/ TailDropped) => xResult.truncated
    /\ xResult.len <= xInput.config.max_text_length + TruncationMarker

-----------------------------------------------------------------------------
\* SheetsClient.get_articles on any sheet

sheetFrame ==
  <<storeVars, driverVars, lastOp, rateVars, fetchVars, keyVars, cacheVars,
    pdfVars, urlVars, extractVars, runnerVars, modeVars>>

\* Header rows: the three identifier columns, or a title and a DOI only
HeaderRows ==
  { << <<"D", "O", "I">>, <<"P", "M", "I", "D">>, <<"U", "R", "L">> >>,
    << <<"T", "i", "t", "l", "e">>, <<"D", "O", "I">> >> }

\* Cells: empty, blank, or a value
SheetCells == {<< >>, <<" ">>, <<"1", "0">>}

\* Data rows: the API leaves out the trailing empty cells of a row
SheetRows(headers) ==
  UNION {[1..n -> SheetCells] : n \in 0..Len(headers)}

\* The sheet is read, once in a run: a header row and MaxItems data rows
GetArticles ==
  /\ values = << >>
  /\ \E headers \in HeaderRows :
       \E rows \in [1..MaxItems -> SheetRows(headers)] :
         /\ values' = <<headers>> \o rows
         /\ listed' = get_articles(<<headers>> \o rows)
  /\ UNCHANGED sheetFrame

NextSheet == GetArticles

SpecSheet == DriverInit /\ [][NextSheet]_vars

\* A data row has a doi, pmid or url cell with a character that is no blank
Eligible(i) ==
  \E j \in DOMAIN values[1] :
    /\ header_key(values[1][j]) \in
         {<<"d", "o", "i">>, <<"p", "m", "i", "d">>, <<"u", "r", "l">>}
    /\ j <= Len(values[i])
    /\ \E k \in DOMAIN values[i][j] : values[i][j][k] # " "

\* C28: Eligibility filter: get_articles returns exactly the rows that have
\* at least one non-blank identifier among doi, pmid and url, each once and
\* in the order of the sheet; a row with no identifier is never returned
\* and a row with an identifier is never dropped.
C28_EligibilityFilter ==
  values # << >> =>
    /\ {listed[k].id : k \in DOMAIN listed}
         = {i \in FirstRow..Len(values) : Eligible(i)}
    /\ \A k \in DOMAIN listed, m \in DOMAIN listed :
         k < m => listed[k].id < listed[m].id

\* C28 witness: a sheet whose first data row has blank identifiers only and
\* is left out, and whose second data row has a url only and is returned
C28_Witness ==
  /\ Len(values) >= FirstRow + 1
  /\ Len(values[FirstRow]) > 0
  /\ \E j \in DOMAIN values[FirstRow] : values[FirstRow][j] = <<" ">>
  /\ ~Eligible(FirstRow)
  /\ Len(listed) = 1
  /\ listed[1].id = FirstRow + 1
  /\ listed[1].doi = << >>
  /\ listed[1].url # << >>

-----------------------------------------------------------------------------
\* enhanced_main.py with the ExtractionModeManager: main() loads or chooses
\* the method, process_articles goes through the work list and reports its
\* counters to update_progress.  Storage reads and writes succeed.

MaxRuns == 3   \* runs of enhanced_main.py

ExtractionMethods == {"web_based", "pdf_based"}

\* set_method: a new ExtractionState with the defaults of the dataclass
set_method(method) ==
  [kind |-> "state", method |-> method,
   resume_from_article_id |-> NoMarker,
   total_articles_processed |-> 0,
   successful_extractions |-> 0,
   failed_extractions |-> 0]

\* An update_progress that stores every argument as given
update_progress_unconditional(state, total_processed, successful, failed, resume_from) ==
  IF state = NoFile THEN state
  ELSE [state EXCEPT !.total_articles_processed = total_processed,
                     !.successful_extractions = successful,
                     !.failed_extractions = failed,
                     !.resume_from_article_id = resume_from]

\* update_progress: load_state, "if total_processed > 0", "if successful >
\* 0", "if failed > 0", "if resume_from", save_state; without a state file
\* nothing is saved
update_progress(state, total_processed, successful, failed, resume_from) ==
  IF state = NoFile THEN state
  ELSE [state EXCEPT
          !.total_articles_processed =
             IF total_processed > 0 THEN total_processed ELSE @,
          !.successful_extractions = IF successful > 0 THEN successful ELSE @,
          !.failed_extractions = IF failed > 0 THEN failed ELSE @,
          !.resume_from_article_id =
             IF resume_from # NoMarker THEN resume_from ELSE @]

\* get_progress_summary (success_rate, a float, is left out)
get_progress_summary(state) ==
  IF state = NoFile
  THEN [method |-> "none", total_processed |-> 0, status |-> "not_started"]
  ELSE [method |-> state.method,
        total_processed |-> state.total_articles_processed,
        successful |-> state.successful_extractions,
        failed |-> state.failed_extractions,
        resume_from |-> state.resume_from_article_id,
        status |-> IF state.resume_from_article_id # NoMarker
                   THEN "in_progress" ELSE "completed"]

\* The arguments of an update_progress call
ProgressCall(total_processed, successful, failed, resume_from) ==
  [kind |-> "update", total_processed |-> total_processed,
   successful |-> successful, failed |-> failed, resume_from |-> resume_from]

modeFrame ==
  <<driverVars, lastOp, rateVars, fetchVars, keyVars, cacheVars, pdfVars,
    urlVars, extractVars, sheetVars, runnerVars>>

\* main(): with a saved method the user continues with it or chooses anew,
\* without one the method is chosen; choose_method_interactively ends in
\* set_method.  Then process_articles begins with both counters at 0.
ModeMain ==
  /\ mPc \in {"idle", "finished", "paused"}
  /\ mRuns < MaxRuns
  /\ \E continue_choice \in {"y", "n"}, method \in ExtractionMethods :
       state_file' = IF state_file # NoFile /\ continue_choice = "y"
                     THEN state_file
                     ELSE set_method(method)
  /\ success_count' = 0
  /\ error_count' = 0
  /\ mIdx' = 1
  /\ mPc' = "loop"
  /\ mRuns' = mRuns + 1
  /\ mUpdate' = NoProgress
  /\ UNCHANGED <<storeVars, modeFrame>>

\* What the loop body logs when it ends in a failure
ModeFailures == {"No content found", "str(e)"}

\* One loop body of process_articles.  An article is_processed is skipped.
\* Otherwise start_processing, and then either one of the steps fails
\* (log_failure, error_count += 1, continue: no update_progress) or all
\* succeed (log_success, success_count += 1, update_progress).
ModeIterate ==
  /\ mPc = "loop"
  /\ mIdx <= Len(WorkList)
  /\ mIdx' = mIdx + 1
  /\ LET article_id == WorkList[mIdx]
         started == [article_id |-> article_id, event_type |-> "start",
                     message |-> "Started processing article"]
     IN IF is_processed(article_id)
        THEN /\ mUpdate' = NoProgress
             /\ UNCHANGED <<storeVars, state_file, success_count, error_count>>
        ELSE \/ \E msg \in ModeFailures :
                  /\ articles' = [articles EXCEPT ![article_id] =
                                    [status |-> "failed", error_message |-> msg,
                                     full_text_source |-> "unknown",
                                     summary |-> Null]]
                  /\ processing_log' = processing_log \o
                       <<started, [article_id |-> article_id,
                                   event_type |-> "failure", message |-> msg]>>
                  /\ error_count' = error_count + 1
                  /\ mUpdate' = NoProgress
                  /\ UNCHANGED <<extraction_data, state_file, success_count>>
             \/ /\ articles' = [articles EXCEPT ![article_id] =
                                   [status |-> "completed", error_message |-> Null,
                                    full_text_source |-> Null,
                                    summary |-> Summary(ResultA)]]
                /\ extraction_data' = extraction_data \o DataRows(article_id, ResultA)
                /\ processing_log' = processing_log \o
                     <<started, [article_id |-> article_id,
                                 event_type |-> "success",
                                 message |-> "Successfully extracted data"]>>
                /\ success_count' = success_count + 1
                /\ state_file' = update_progress(state_file,
                                     success_count' + error_count,
                                     success_count', error_count, article_id)
                /\ mUpdate' = ProgressCall(success_count' + error_count,
                                           success_count', error_count, article_id)
                /\ UNCHANGED error_count
  /\ UNCHANGED <<mPc, mRuns, modeFrame>>

\* The loop is exhausted: the final progress update, resume_from=None
ModeFinish ==
  /\ mPc = "loop"
  /\ mIdx > Len(WorkList)
  /\ state_file' = update_progress(state_file, success_count + error_count,
                                   success_count, error_count, NoMarker)
  /\ mUpdate' = ProgressCall(success_count + error_count,
                             success_count, error_count, NoMarker)
  /\ mPc' = "finished"
  /\ UNCHANGED <<success_count, error_count, mIdx, mRuns, storeVars, modeFrame>>

\* KeyboardInterrupt inside the loop: main() logs "Extraction paused"
ModeInterrupt ==
  /\ mPc = "loop"
  /\ mPc' = "paused"
  /\ mUpdate' = NoProgress
  /\ UNCHANGED <<state_file, success_count, error_count, mIdx, mRuns,
                 storeVars, modeFrame>>

NextMode ==
  \/ ModeMain
  \/ ModeIterate
  \/ ModeFinish
  \/ ModeInterrupt

SpecMode == DriverInit /\ [][NextMode]_vars

\* C37: Run completion clears the resume marker: when process_articles has
\* gone through the whole work list and made its final progress update, the
\* saved ExtractionState has no resume marker and get_progress_summary
\* reports the status completed, whatever the run's successes were.
C37_CompletionClearsMarker ==
  mPc = "finished" =>
    /\ state_file # NoFile
    /\ state_file.resume_from_article_id = NoMarker
    /\ get_progress_summary(state_file).status = "completed"

\* C38: Saved counters are consistent: after every update_progress call of
\* the driver, over consecutive runs on one state file, the saved counters
\* satisfy processed = successful + failed and each equals the driver's
\* count for the current run.
C38_CountersConsistent ==
  (mUpdate # NoProgress /\ state_file # NoFile) =>
    /\ state_file.total_articles_processed =
         state_file.successful_extractions + state_file.failed_extractions
    /\ state_file.total_articles_processed = success_count + error_count
    /\ state_file.successful_extractions = success_count
    /\ state_file.failed_extractions = error_count

-----------------------------------------------------------------------------
\* Runner scripts: restart_extraction.py (restart_extraction) and
\* scripts/run_extraction.py (main).  Both read the sheet, decide what to
\* skip before the loop, and record every article in the same database
\* (TrackingConfig.database_file = "progress.db").  Storage reads and writes
\* succeed.

Runners == {"restart", "run_extraction"}

runnerFrame == <<lastOp, rateVars, fetchVars, keyVars, cacheVars, pdfVars,
    urlVars, extractVars, sheetVars>>

\* log_failure(article_id, error_message, full_text_source): the third
\* argument, when given, is stored in column full_text_source
log_failure_source(id, msg, full_text_source) ==
  /\ articles' = [articles EXCEPT ![id] =
                    IF @ = NoRow
                    THEN [status |-> "failed", error_message |-> msg,
                          full_text_source |-> full_text_source,
                          summary |-> Null]
                    ELSE [@ EXCEPT !.status = "failed",
                                   !.error_message = msg,
                                   !.full_text_source = full_text_source]]
  /\ processing_log' = Append(processing_log,
                          [article_id |-> id, event_type |-> "failure",
                           message |-> msg])
  /\ UNCHANGED extraction_data

\* The failure a runner records in its loop body: restart_extraction.py
\* names the stage in the third argument, run_extraction.py gives none
RunnerFailure(msg, stage) ==
  log_failure_source(CurrentId, msg,
                     IF driver = "restart" THEN stage ELSE "unknown")

\* backup_and_reset_database: progress.db is moved to old_progress_<time>.db;
\* the ProgressTracker built afterwards creates the three tables anew
backup_and_reset_database ==
  /\ articles' = [id \in ArticleIds |-> NoRow]
  /\ extraction_data' = << >>
  /\ processing_log' = << >>

\* A run of a runner script begins.  restart_extraction.py resets the
\* database and then reads get_processed_articles() from it;
\* run_extraction.py sets completed_articles = set() and leaves it so
\* ("For now, we'll start from the beginning").  One database is run by one
\* script.  statusAtStart is what the earlier runs had recorded.
StartRunner ==
  /\ pc \in {"idle", "done"}
  /\ \E d \in Runners :
       /\ driver \in {"none", d}
       /\ driver' = d
       /\ IF d = "restart"
          THEN /\ backup_and_reset_database
               /\ processed_articles' = get_processed_articles'
          ELSE /\ UNCHANGED storeVars
               /\ processed_articles' = {}
  /\ idx' = 1
  /\ pc' = "check"
  /\ extracted' = EmptyResult
  /\ statusAtStart' = [id \in ArticleIds |-> articles[id].status]
  /\ attempted' = {}
  /\ lastEnd' = IF pc = "done" THEN "finished" ELSE lastEnd
  /\ trouble' = NoTrouble
  /\ UNCHANGED <<iterations, updFailed, runnerFrame, modeVars>>

\* restart: "if article_id not in processed_articles" (the filter that
\* builds articles_to_process); run_extraction: "if article_id in
\* completed_articles: continue"
RunnerCheck ==
  /\ pc = "check"
  /\ idx <= MaxItems
  /\ IF CurrentId \in processed_articles
     THEN NextArticle /\ UNCHANGED <<iterations, trouble>>
     ELSE /\ iterations < MaxIterations
          /\ iterations' = iterations + 1
          /\ pc' = "start"
          /\ trouble' = NoTrouble
          /\ UNCHANGED <<idx, extracted>>
  /\ UNCHANGED <<driver, statusAtStart, attempted, lastEnd, updFailed,
                 storeVars, runnerFrame, runnerVars, modeVars>>

\* fetch_article hands back nothing, a text of at most 500 characters
\* ("short"), a longer text, or raises.  restart keeps a text only when
\* len(result) > 500; run_extraction only tests "not text".
RunnerFetchFailure(d, r) ==
  CASE r = "raise" -> ExceptionText
    [] r = "none" -> "No text content found"
    [] r = "short" -> IF d = "restart" THEN "No text content found" ELSE Null
    [] OTHER -> Null

RunnerFetch ==
  /\ pc = "fetch"
  /\ \E r \in FetchResults :
       /\ trouble' = IF r \in {"raise", "none"}
                     THEN Trouble("fetch", IF r = "raise" THEN r ELSE "nothing")
                     ELSE trouble
       /\ IF RunnerFetchFailure(driver, r) # Null
          THEN /\ RunnerFailure(RunnerFetchFailure(driver, r),
                                IF r = "raise" THEN "processing" ELSE "fetch")
               /\ NextArticle
          ELSE /\ pc' = "extract"
               /\ UNCHANGED <<idx, extracted, storeVars>>
  /\ attempted' = attempted \cup {CurrentId}
  /\ UNCHANGED <<iterations, driver, statusAtStart, lastEnd, updFailed,
                 runnerFrame, runnerVars, modeVars>>

\* restart: extract_all_data returns a result (possibly empty) or raises.
\* run_extraction calls data_extractor.extract_data, which DataExtractor
\* does not define: the AttributeError is caught by the except clause of the
\* loop body.
RunnerExtract ==
  /\ pc = "extract"
  /\ \/ /\ RunnerFailure(ExceptionText, "processing")
        /\ NextArticle
        /\ trouble' = Trouble("extract", "raise")
     \/ /\ driver = "restart"
        /\ \E d \in {EmptyResult, ResultA} :
             /\ trouble' = IF d = EmptyResult
                           THEN Trouble("extract", "nothing") ELSE trouble
             /\ IF d = EmptyResult
                THEN /\ RunnerFailure("No data extracted", "extract")
                     /\ NextArticle
                ELSE /\ extracted' = d
                     /\ pc' = "update"
                     /\ UNCHANGED <<idx, storeVars>>
  /\ attempted' = attempted \cup {CurrentId}
  /\ UNCHANGED <<iterations, driver, statusAtStart, lastEnd, updFailed,
                 runnerFrame, runnerVars, modeVars>>

\* restart: update_extracted_data once per category, each call in a try of
\* its own, the returned value ignored; sheets_updated counts the calls that
\* did not raise.  None counted: failure "No sheets updated".
RunnerUpdate ==
  /\ pc = "update"
  /\ \E sheets_updated \in 0..Len(extracted) :
       /\ trouble' = IF sheets_updated = 0 THEN Trouble("update", "raise")
                     ELSE trouble
       /\ IF sheets_updated > 0
          THEN /\ pc' = "log"
               /\ UNCHANGED <<idx, extracted, storeVars>>
          ELSE /\ RunnerFailure("No sheets updated", "update")
               /\ NextArticle
  /\ attempted' = attempted \cup {CurrentId}
  /\ UNCHANGED <<iterations, driver, statusAtStart, lastEnd, updFailed,
                 runnerFrame, runnerVars, modeVars>>

\* start_processing, log_success, the end of the loop and KeyboardInterrupt
\* are the steps of the batch drivers
NextRunner ==
  \/ StartRunner
  \/ RunnerCheck
  \/ DriverStart
  \/ RunnerFetch
  \/ RunnerExtract
  \/ RunnerUpdate
  \/ DriverLogSuccess
  \/ DriverFinish
  \/ Interrupt

SpecRunner == DriverInit /\ [][NextRunner]_vars

\* C29: Runner scripts resume: in every run of restart_extraction.py and of
\* scripts/run_extraction.py, no article that an earlier run of the same
\* script had recorded as completed is started, fetched or extracted again,
\* and a run that reaches the end of the work list has attempted exactly the
\* articles that were not completed when it began.
C29_RunnersResume ==
  driver \in Runners =>
    /\ \A id \in attempted : statusAtStart[id] # "completed"
    /\ pc = "done" =>
         attempted = {id \in ArticleIds : statusAtStart[id] # "completed"}

-----------------------------------------------------------------------------
\* _generate_pdf_key over the runs of one article

keyFrame ==
  <<storeVars, driverVars, lastOp, rateVars, fetchVars, cacheVars, pdfVars,
    urlVars, extractVars, sheetVars, runnerVars, modeVars>>

\* A row of the sheet: its doi, pmid and title are fixed, its id is the row
KeyArticle ==
  /\ \E d \in Dois, p \in Pmids, t \in Titles :
       kArticle' = [doi |-> d, pmid |-> p, title |-> t, id |-> <<"2">>]
  /\ kPrev' = NoCall
  /\ kLast' = NoCall
  /\ UNCHANGED keyFrame

\* One run: some of the identifiers are present in article_info
GenerateKey ==
  /\ kArticle.doi # NoIdent
  /\ \E present \in SUBSET Identifiers, timestamp \in Timestamps :
       /\ kLast' = [present |-> present,
                    key |-> generate_pdf_key(ArticleInfo(kArticle, present),
                                             timestamp)]
       /\ kPrev' = kLast
  /\ UNCHANGED <<kArticle, keyFrame>>

NextKey ==
  \/ KeyArticle
  \/ GenerateKey

SpecKey == DriverInit /\ [][NextKey]_vars

\* C6: Key stability across identifier subsets: for one article with fixed
\* doi, pmid and title, the key is the same for every non-empty subset of
\* those identifiers present on a run.
C6_KeyStableAcrossSubsets ==
  (/\ kPrev # NoCall
   /\ kLast # NoCall
   /\ kPrev.present \cap {"doi", "pmid", "title"} # {}
   /\ kLast.present \cap {"doi", "pmid", "title"} # {}
   /\ ("id" \in kPrev.present) = ("id" \in kLast.present))
  => kPrev.key = kLast.key

\* C19: _generate_pdf_key is deterministic: for every identifier set, two
\* calls with the same identifiers return the same key, at any two times.
C19_KeyDeterministic ==
  (/\ kPrev # NoCall
   /\ kLast # NoCall
   /\ kPrev.present = kLast.present)
  => kPrev.key = kLast.key

\* An article_info with a doi and a pmid (either may be missing) and nothing
\* else
IdentifierSets ==
  {[doi |-> d, pmid |-> p, title |-> NoIdent, id |-> NoIdent] :
     d \in Dois \cup {NoIdent}, p \in Pmids \cup {NoIdent}}
     \ {[doi |-> NoIdent, pmid |-> NoIdent, title |-> NoIdent, id |-> NoIdent]}

\* C40: Keys do not collide: the key generated for an article from its doi
\* and pmid differs from the key of every article whose (doi, pmid) differs,
\* over identifiers that may contain '/', ':' and '_'.
C40_KeysInjective ==
  (/\ kLast # NoCall
   /\ kLast.present # {}
   /\ kLast.present \subseteq {"doi", "pmid"}) =>
    \A other \in IdentifierSets, timestamp \in Timestamps :
      other # ArticleInfo(kArticle, kLast.present) =>
        generate_pdf_key(other, timestamp) # kLast.key

-----------------------------------------------------------------------------
\* CloudflareR2Storage: calls of store_pdf, retrieve_pdf and delete_pdf

cacheFrame ==
  <<storeVars, driverVars, lastOp, rateVars, fetchVars, keyVars, pdfVars,
    urlVars, extractVars, sheetVars, runnerVars, modeVars>>

CacheInfos ==
  { [doi |-> <<"1", "/", "a">>, pmid |-> <<"7">>, title |-> NoIdent, id |-> NoIdent],
    [doi |-> <<"1", "/", "a">>, pmid |-> NoIdent, title |-> NoIdent, id |-> NoIdent],
    [doi |-> <<"1", "_", "a">>, pmid |-> NoIdent, title |-> NoIdent, id |-> NoIdent] }

\* The bytes handed to store_pdf
StoredDocs == {DocText, DocOther, DocScan}

CacheKeys == {generate_pdf_key(info, <<"t", "1">>) : info \in CacheInfos}

\* store_pdf(pdf_content, article_info, overwrite)
CacheStore ==
  /\ \E doc \in StoredDocs, info \in CacheInfos, overwrite \in BOOLEAN,
        head \in Backend, put \in Backend :
       LET key == generate_pdf_key(info, <<"t", "1">>)
           out == store_pdf(bucket, available, key, doc, overwrite, head, put)
       IN /\ bucket' = out.bucket
          /\ cStore' = [kind |-> "store", ret |-> out.ret, doc |-> doc,
                        key |-> key, uploaded |-> out.uploaded,
                        overwrite |-> overwrite,
                        before |-> IF key \in DOMAIN bucket
                                   THEN bucket[key] ELSE Absent]
  /\ cRetr' = NoRetr
  /\ UNCHANGED <<available, cacheFrame>>

\* retrieve_pdf(key), for the key just returned by store_pdf or any other
CacheRetrieve ==
  /\ \E key \in CacheKeys, get \in Backend :
       cRetr' = [kind |-> "retrieve", key |-> key,
                 result |-> retrieve_pdf(bucket, available, key, get),
                 after |-> IF cStore.kind = "store" /\ cStore.ret = Key(key)
                           THEN cStore ELSE NoStore]
  /\ cStore' = NoStore
  /\ UNCHANGED <<available, bucket, cacheFrame>>

\* delete_pdf(key)
CacheDelete ==
  /\ \E key \in CacheKeys, del \in Backend :
       bucket' = delete_pdf(bucket, available, key, del)
  /\ cStore' = [kind |-> "delete"]
  /\ cRetr' = NoRetr
  /\ UNCHANGED <<available, cacheFrame>>

\* cleanup_old_pdfs(days_old): the listed objects older than the cutoff are
\* deleted one by one; old is the set of those whose delete_object succeeds
CacheCleanup ==
  /\ \E old \in SUBSET DOMAIN bucket :
       bucket' = IF available THEN [k \in DOMAIN bucket \ old |-> bucket[k]]
                 ELSE bucket
  /\ cStore' = [kind |-> "cleanup"]
  /\ cRetr' = NoRetr
  /\ UNCHANGED <<available, cacheFrame>>

CacheInit ==
  /\ CacheEmpty
  /\ available \in BOOLEAN
  /\ StoreInit
  /\ DriverIdle
  /\ RateIdle
  /\ FetchIdle
  /\ KeyIdle
  /\ PdfIdle
  /\ UrlIdle
  /\ ExtractIdle
  /\ SheetIdle
  /\ RunnerIdle
  /\ ModeIdle

NextCache ==
  \/ CacheStore
  \/ CacheRetrieve
  \/ CacheDelete
  \/ CacheCleanup

SpecCache == CacheInit /\ [][NextCache]_vars

\* A retrieve_pdf(k) made right after a store_pdf without overwrite that
\* returned k
RetrievedAfterStore ==
  /\ cRetr # NoRetr
  /\ cRetr.after # NoStore
  /\ ~cRetr.after.overwrite

\* C7 as stated: Store/retrieve round-trip: in any cache state, whenever
\* store_pdf(bytes, identifiers) without overwrite returns a key k,
\* retrieve_pdf(k) immediately afterwards returns exactly those bytes.
C7_RoundTripAnyState ==
  RetrievedAfterStore => cRetr.result = cRetr.after.doc

\* C7: Store/retrieve round-trip, amended: whenever store_pdf(bytes,
\* identifiers) without overwrite returns a key k and retrieve_pdf(k)
\* immediately afterwards returns a document, that document is the given
\* bytes if nothing was stored under k before the call, and the document
\* already stored under k otherwise.
C7_RoundTrip ==
  (RetrievedAfterStore /\ cRetr.result # None) =>
    cRetr.result = IF cRetr.after.before = Absent
                   THEN cRetr.after.doc
                   ELSE cRetr.after.before

\* C7 witness: a store without overwrite returned the key of a document
\* stored before, and the retrieve that followed returned that document,
\* not the bytes given
C7_Witness ==
  /\ RetrievedAfterStore
  /\ cRetr.after.before # Absent
  /\ cRetr.after.before # cRetr.after.doc
  /\ cRetr.result = cRetr.after.before

\* A store_pdf without overwrite whose key already held a document
StoredOnExisting ==
  /\ cStore.kind = "store"
  /\ ~cStore.overwrite
  /\ cStore.before # Absent

\* What a key holds changes only in a step of store_pdf with overwrite,
\* delete_pdf or cleanup_old_pdfs
OnlyOverwriteDeleteCleanupChange ==
  [][\A k \in DOMAIN bucket :
       (k \notin DOMAIN bucket' \/ bucket'[k] # bucket[k]) =>
         \/ cStore'.kind \in {"delete", "cleanup"}
         \/ cStore'.kind = "store" /\ cStore'.overwrite]_vars

\* C15 as stated: Cached content is immutable without the overwrite flag:
\* if key k already holds b1, store_pdf(b2, identifiers) without overwrite
\* and with that key returns k, performs no upload and leaves k holding b1;
\* only store_pdf with overwrite, delete and cleanup change what a key holds.
C15_ImmutableReturnsKey ==
  /\ [](StoredOnExisting =>
          /\ cStore.ret = Key(cStore.key)
          /\ ~cStore.uploaded
          /\ cStore.key \in DOMAIN bucket
          /\ bucket[cStore.key] = cStore.before)
  /\ OnlyOverwriteDeleteCleanupChange

\* C15: Cached content is immutable without the overwrite flag, amended: if
\* key k already holds b1, store_pdf(b2, identifiers) without overwrite and
\* with that key returns k, or a failure when the storage is unavailable or
\* the existence check fails; in either case it performs no upload and
\* leaves k holding b1; only store_pdf with overwrite, delete and cleanup
\* change what a key holds.
C15_Immutable ==
  /\ [](StoredOnExisting =>
          /\ cStore.ret \in {Key(cStore.key), None}
          /\ ~cStore.uploaded
          /\ cStore.key \in DOMAIN bucket
          /\ bucket[cStore.key] = cStore.before)
  /\ OnlyOverwriteDeleteCleanupChange

\* C15 witness: a store without overwrite, given other bytes than the key
\* holds, has returned the key and left the older document in place
C15_Witness ==
  /\ StoredOnExisting
  /\ cStore.before # cStore.doc
  /\ cStore.ret = Key(cStore.key)
  /\ ~cStore.uploaded
  /\ bucket[cStore.key] = cStore.before

-----------------------------------------------------------------------------
\* EnhancedArticleFetcher._fetch_pdf_based, step by step

pdfFrame ==
  <<storeVars, driverVars, lastOp, rateVars, fetchVars, keyVars, cStore, cRetr,
    urlVars, extractVars, sheetVars, runnerVars, modeVars>>

\* fetch_article(article) with the PDF_BASED method
PdfBegin ==
  /\ pPc \in {"idle", "done"}
  /\ pArticle' \in PdfArticles
  /\ pPc' = "cache"
  /\ pIdx' = 1
  /\ pDoc' = None
  /\ pInvoked' = {}
  /\ pHit' = None
  /\ pHitText' = None
  /\ pResult' = None
  /\ pAnswers' = << >>
  /\ pExtractOk' = "none"
  /\ pWeb' = NotAsked
  /\ pCacheFailed' = {}
  /\ pCacheRaised' = FALSE
  /\ UNCHANGED <<available, bucket, pdfFrame>>

\* Step 1: test_connection, then _try_retrieve_stored_pdf: retrieve_pdf of
\* the expected key, extract_text_from_pdf of what it returns, then
\* get_pdf_metadata.  An exception inside _try_retrieve_stored_pdf makes it
\* return None; one of test_connection would reach the except clause of
\* _fetch_pdf_based, which goes to the web-based method.
PdfCache ==
  /\ pPc = "cache"
  /\ \E conn \in Backend, get \in Backend, meta \in Backend, ok \in BOOLEAN :
       LET expected_key == generate_pdf_key(pArticle, <<"t", "1">>)
           connected == available /\ conn = "ok"
           connRaised == /\ available
                         /\ conn = "error"
                         /\ r2_except("test_connection") = "raised"
           pdf_content ==
             IF connected
             THEN retrieve_pdf(bucket, available, expected_key, get)
             ELSE None
           extracted_text ==
             IF pdf_content = None THEN None
             ELSE extract_text_from_pdf(pdf_content, ok)
           metaFailed == extracted_text # None /\ meta = "error"
           metaRaised == metaFailed /\ r2_except("get_pdf_metadata") = "raised"
           stored_pdf == IF metaRaised THEN None ELSE extracted_text
           next == IF connRaised THEN "web" ELSE AfterCache(stored_pdf)
       IN /\ pHit' = pdf_content
          /\ pHitText' = extracted_text
          /\ pPc' = next
          /\ pResult' = IF next = "done"
                        THEN [text |-> extracted_text, source |-> "r2_storage",
                              stored_metadata |-> (meta = "ok")]
                        ELSE None
          /\ pCacheFailed' =
               (IF ~connected THEN {"test_connection"} ELSE {})
               \cup (IF connected /\ get = "error" THEN {"retrieve_pdf"}
                     ELSE {})
               \cup (IF metaFailed THEN {"get_pdf_metadata"} ELSE {})
          /\ pCacheRaised' =
               \/ connRaised
               \/ /\ connected
                  /\ get = "error"
                  /\ r2_except("retrieve_pdf") = "raised"
               \/ metaRaised
  /\ UNCHANGED <<pArticle, pIdx, pDoc, pInvoked, pAnswers, pExtractOk, pWeb,
                 available, bucket, pdfFrame>>

\* Step 2, one source of _fetch_pdf_content: the first valid PDF is taken
PdfSource ==
  /\ pPc = "pdfsrc"
  /\ pIdx <= Len(PdfSourceList(pArticle))
  /\ pInvoked' = pInvoked \cup {PdfSourceList(pArticle)[pIdx]}
  /\ \E content \in {None, Raised} \cup Docs :
       /\ pAnswers' = Append(pAnswers, content)
       /\ IF content \in Docs /\ validate_pdf(content)
          THEN /\ pDoc' = content
               /\ pPc' = "store"
               /\ UNCHANGED pIdx
          ELSE /\ pIdx' = pIdx + 1
               /\ UNCHANGED <<pDoc, pPc>>
  /\ UNCHANGED <<pArticle, pHit, pHitText, pResult, pExtractOk, pWeb,
                 pCacheFailed, pCacheRaised, available, bucket, pdfFrame>>

\* Step 2, no source left: no PDF, the web-based method is next
PdfNoSource ==
  /\ pPc = "pdfsrc"
  /\ pIdx > Len(PdfSourceList(pArticle))
  /\ pPc' = "web"
  /\ UNCHANGED <<pArticle, pIdx, pDoc, pInvoked, pHit, pHitText, pResult,
                 pAnswers, pExtractOk, pWeb, pCacheFailed, pCacheRaised,
                 available, bucket, pdfFrame>>

\* Step 3: store_pdf(pdf_content, article), inside its own try
PdfStore ==
  /\ pPc = "store"
  /\ \E head \in Backend, put \in Backend :
       LET out == store_pdf(bucket, available,
                            generate_pdf_key(pArticle, <<"t", "1">>),
                            pDoc, FALSE, head, put)
       IN /\ bucket' = out.bucket
          /\ pCacheFailed' = IF out.ret = None
                             THEN pCacheFailed \cup {"store_pdf"}
                             ELSE pCacheFailed
          /\ pCacheRaised' =
               \/ pCacheRaised
               \/ /\ out.ret = None
                  /\ available
                  /\ r2_except("store_pdf") = "raised"
  /\ pPc' = "extract"
  /\ UNCHANGED <<pArticle, pIdx, pDoc, pInvoked, pHit, pHitText, pResult,
                 pAnswers, pExtractOk, pWeb, available, pdfFrame>>

\* Steps 4 and 5: extract_text_from_pdf; without text the web-based method
\* is next
PdfExtract ==
  /\ pPc = "extract"
  /\ \E ok \in BOOLEAN :
       LET extracted_text == extract_text_from_pdf(pDoc, ok)
       IN /\ pExtractOk' = IF ok THEN "yes" ELSE "no"
          /\ IF extracted_text = None
             THEN /\ pPc' = "web"
                  /\ UNCHANGED pResult
             ELSE /\ pPc' = "done"
                  /\ pResult' = [text |-> extracted_text, source |-> "pdf"]
  /\ UNCHANGED <<pArticle, pIdx, pDoc, pInvoked, pHit, pHitText, pAnswers,
                 pWeb, pCacheFailed, pCacheRaised, available, bucket, pdfFrame>>

\* A fallback that drops what the web-based method handed back
WebResult_dropped(text) == None

\* What _fetch_pdf_based returns for an answer of the web-based method:
\* "if text_content: return text_content, article", else None
WebResult(text) ==
  IF NoContent(text) THEN None ELSE [text |-> text, source |-> "web"]

\* _fetch_web_based: ArticleFetcher.fetch_article, which returns a text
\* (the empty one included) or None
PdfWeb ==
  /\ pPc = "web"
  /\ pInvoked' = pInvoked \cup {"web-based"}
  /\ \E text \in {None, Text(<< >>), Text(<<Run("p", 1000)>>), MetadataText} :
       /\ pWeb' = text
       /\ pResult' = WebResult(text)
  /\ pPc' = "done"
  /\ UNCHANGED <<pArticle, pIdx, pDoc, pHit, pHitText, pAnswers, pExtractOk,
                 pCacheFailed, pCacheRaised, available, bucket, pdfFrame>>

PdfInit ==
  /\ CacheEmpty
  /\ available \in BOOLEAN
  /\ StoreInit
  /\ DriverIdle
  /\ RateIdle
  /\ FetchIdle
  /\ KeyIdle
  /\ PdfIdle
  /\ UrlIdle
  /\ ExtractIdle
  /\ SheetIdle
  /\ RunnerIdle
  /\ ModeIdle

NextPdf ==
  \/ PdfBegin
  \/ PdfCache
  \/ PdfSource
  \/ PdfNoSource
  \/ PdfStore
  \/ PdfExtract
  \/ PdfWeb

SpecPdf == PdfInit /\ [][NextPdf]_vars

\* What _fetch_pdf_based returns when no storage is configured, given the
\* answers of the PDF sources, of the PDF processor and of the web-based
\* method: the text of the first valid PDF, else the web-based text.
\* Incomplete if the run did not ask for one of the answers needed.
Incomplete == [kind |-> "incomplete"]

NoCacheOutcome ==
  LET valid == {k \in DOMAIN pAnswers :
                  pAnswers[k].kind = "pdf" /\ validate_pdf(pAnswers[k])}
      web == IF pWeb = NotAsked THEN Incomplete ELSE WebResult(pWeb)
  IN IF valid # {}
     THEN IF pExtractOk = "none" THEN Incomplete
          ELSE LET first == CHOOSE k \in valid : \A j \in valid : k <= j
                   text == extract_text_from_pdf(pAnswers[first],
                                                 pExtractOk = "yes")
               IN IF text # None THEN [text |-> text, source |-> "pdf"]
                  ELSE web
     ELSE IF Len(pAnswers) < Len(PdfSourceList(pArticle)) THEN Incomplete
          ELSE web

C8_HitSkipsNetworkAlways ==
  pHit # None => pInvoked = {}

\* C8: Cache hit skips the network, amended: whenever retrieve_pdf for the
\* article's key returns a stored document and text is extracted from it,
\* no network source (PDF source or web-based source) is invoked for that
\* article.
C8_HitSkipsNetwork ==
  (pHit # None /\ pHitText # None) => pInvoked = {}

\* C8 witness: the fetch has returned the text of the stored document
\* without calling any network source
C8_Witness ==
  /\ pPc = "done"
  /\ pHit # None
  /\ pHitText # None
  /\ pResult # None
  /\ pResult.source = "r2_storage"
  /\ pInvoked = {}

\* No source of _fetch_pdf_content gave a valid PDF
NoValidDocument ==
  /\ Len(pAnswers) = Len(PdfSourceList(pArticle))
  /\ \A k \in DOMAIN pAnswers :
       ~(pAnswers[k].kind = "pdf" /\ validate_pdf(pAnswers[k]))

\* The PDF that was fetched gave no text
NoExtractedText ==
  /\ pDoc # None
  /\ pExtractOk # "none"
  /\ extract_text_from_pdf(pDoc, pExtractOk = "yes") = None

\* C34: Document-first never loses content: _fetch_pdf_based calls the
\* web-based method (the direct-text chain) only when no PDF source gave a
\* valid document, the fetched document gave no text, or a call of the
\* document path raised; and it returns None only after the web-based method
\* was called for the article and handed back no content.
C34_DocumentFirstNeverLoses ==
  /\ pWeb # NotAsked =>
       NoValidDocument \/ NoExtractedText \/ pCacheRaised
  /\ (pPc = "done" /\ pResult = None) =>
       (pWeb # NotAsked /\ NoContent(pWeb))
  /\ (pPc = "done" /\ pWeb # NotAsked /\ ~NoContent(pWeb)) =>
       (pResult # None /\ pResult.text = pWeb)

\* C34 witness: a valid PDF was fetched, pdfplumber could not open it, and
\* the text of the web-based method is what was returned
C34_Witness ==
  /\ pPc = "done"
  /\ pDoc # None
  /\ pExtractOk = "no"
  /\ pWeb # NotAsked
  /\ ~NoContent(pWeb)
  /\ pResult # None
  /\ pResult.source = "web"

\* The source of the direct-text chain that a PDF source stands for
TextSource(pdf_source) ==
  CASE pdf_source = "DOI PDF direct" -> "DOI direct"
    [] pdf_source = "Direct URL PDF" -> "Direct URL"
    [] pdf_source = "Unpaywall PDF" -> "Unpaywall"
    [] pdf_source = "PMC PDF" -> "PubMed Central"
    [] pdf_source = "arXiv PDF" -> "arXiv"

\* The place of a source in the list sources of fetch_article
Priority(name) == CHOOSE k \in DOMAIN Sources : Sources[k].name = name

\* The PDF sources called so far for the article, in the order of the calls
PdfCalled == SubSeq(PdfSourceList(pArticle), 1, Len(pAnswers))

\* C32: Document-first uses the same priority chain: the PDF sources are
\* called in the relative order their counterparts have in the direct-text
\* chain (DOI, direct URL, Unpaywall, PubMed Central, arXiv), whatever
\* identifiers the article has.
C32_SamePriorityChain ==
  \A j, k \in DOMAIN PdfCalled :
    j < k => Priority(TextSource(PdfCalled[j])) < Priority(TextSource(PdfCalled[k]))

-----------------------------------------------------------------------------
\* ArticleFetcher._fetch_from_url and _fetch_via_doi, one request at a time

urlFrame ==
  <<storeVars, driverVars, lastOp, rateVars, fetchVars, keyVars, cacheVars,
    pdfVars, extractVars, sheetVars, runnerVars, modeVars>>

\* A source is invoked: 'Direct URL' (through _fetch_from_url) or
\* 'DOI direct'
UrlCall ==
  /\ uPc \in {"idle", "done"}
  /\ uFunc' \in {"_fetch_from_url", "_fetch_via_doi"}
  /\ uPc' = "request"
  /\ uAttempt' = 0
  /\ uRequests' = << >>
  /\ uResult' = None
  /\ UNCHANGED urlFrame

\* The text a 200 response gives: _fetch_pdf_text returns None
ResponseText(response) ==
  IF response.content = "pdf" THEN None ELSE Text(<<Run("p", 1000)>>)

\* One pass of the for loop of _fetch_from_url: a 200 response returns; any
\* other status leaves the with block and the loop goes on at once; an
\* exception sleeps 2 ** attempt unless this was the last attempt.  When
\* the range is exhausted the function returns None.
FetchFromUrlAttempt ==
  /\ uFunc = "_fetch_from_url"
  /\ uPc = "request"
  /\ \E response \in Responses :
       LET slept == IF response = Timeout /\ uAttempt < max_retries - 1
                    THEN Pow2(uAttempt) ELSE 0
       IN /\ uRequests' = Append(uRequests, [url |-> "url",
                                            response |-> response,
                                            slept |-> slept])
          /\ IF response.status = 200
             THEN /\ uResult' = ResponseText(response)
                  /\ uPc' = "done"
                  /\ UNCHANGED uAttempt
             ELSE /\ uAttempt' = uAttempt + 1
                  /\ uPc' = IF uAttempt + 1 < max_retries THEN "request"
                            ELSE "done"
                  /\ UNCHANGED uResult
  /\ UNCHANGED <<uFunc, urlFrame>>

\* One pass of the for loop of _fetch_via_doi: one request to the next URL
\* of urls_to_try; a 200 response that mentions an article returns its text,
\* anything else, an exception included, moves on to the next URL
FetchViaDoiRequest ==
  /\ uFunc = "_fetch_via_doi"
  /\ uPc = "request"
  /\ \E response \in Responses :
       /\ uRequests' = Append(uRequests, [url |-> urls_to_try[uAttempt + 1],
                                          response |-> response,
                                          slept |-> 0])
       /\ IF response = Response(200, "html")
          THEN /\ uResult' = Text(<<Run("p", 1000)>>)
               /\ uPc' = "done"
               /\ UNCHANGED uAttempt
          ELSE /\ uAttempt' = uAttempt + 1
               /\ uPc' = IF uAttempt + 1 < Len(urls_to_try) THEN "request"
                         ELSE "done"
               /\ UNCHANGED uResult
  /\ UNCHANGED <<uFunc, urlFrame>>

NextUrl ==
  \/ UrlCall
  \/ FetchFromUrlAttempt
  \/ FetchViaDoiRequest

SpecUrl == DriverInit /\ [][NextUrl]_vars

\* C12: Permanent source errors are not retried: when a request to a URL
\* gets a permanent error (404), no later request of the same source
\* invocation goes to that URL.
C12_PermanentNotRetried ==
  \A i \in DOMAIN uRequests :
    uRequests[i].response.status = 404 =>
      \A j \in DOMAIN uRequests : j > i => uRequests[j].url # uRequests[i].url

\* Requests of the invocation sent to one URL
RequestsTo(url) == {i \in DOMAIN uRequests : uRequests[i].url = url}

\* C13: Transient source errors are retried within the source, boundedly:
\* in every source, a request that failed with a timeout or connection error
\* is followed, after a delay of 2 ** attempt, by another request to the same
\* URL within the same invocation, unless max_retries requests were made; no
\* invocation makes more than max_retries requests to one URL.
C13_TransientRetried ==
  /\ \A i \in DOMAIN uRequests :
       Cardinality(RequestsTo(uRequests[i].url)) <= max_retries
  /\ uPc = "done" =>
       \A i \in DOMAIN uRequests :
         uRequests[i].response = Timeout =>
           \/ Cardinality(RequestsTo(uRequests[i].url)) = max_retries
           \/ /\ uRequests[i].slept = Pow2(Cardinality({j \in RequestsTo(uRequests[i].url) : j < i}))
              /\ \E j \in RequestsTo(uRequests[i].url) : j > i

====
